---- MODULE Spec2Model ----
(***************************************************************************)
(* Model of the weather acquisition core of touracle.                      *)
(*                                                                         *)
(* Spec: backend/weather_service.py (WeatherService: caches, pending       *)
(* table, request queue, the single worker thread, its pacing, retry       *)
(* ladder and circuit breaker), the two reset_api_disable functions and    *)
(* the caller side of backend/weather_openmeteo.py                         *)
(* (fetch_daily_weather_same_day with its Meteostat fallback).             *)
(*                                                                         *)
(* Time is counted in ticks of 50 ms, the largest unit in which            *)
(* RATE_LIMIT_SECONDS = 1.15 s and the retry delays 1 s, 2 s, 4 s are all  *)
(* whole numbers.  The code only ever compares a stored timestamp with     *)
(* time.time(), so timestamps are kept relative to the present moment:     *)
(* time.time() is 0, and when d ticks pass every stored timestamp gets d   *)
(* smaller.  Python's threads interleave between byte codes, so      *)
(* every read or write of shared state (memory_cache, pending, the queue,  *)
(* the module globals, the cache files) is its own step of the thread      *)
(* that performs it; thread-local computation is folded into the step      *)
(* that precedes it.                                                       *)
(***************************************************************************)
EXTENDS Integers, Sequences, FiniteSets, TLC

(***************************************************************************)
(* Bounds of the model.                                                    *)
(***************************************************************************)
\* number of caller threads (request handler threads of the Flask app)
NumThreads == 2
\* total number of top-level calls the callers make in one behaviour
MaxCalls == 2
\* number of stream requests that carry reset_api=1
MaxResets == 1
\* calls of perform_request_dedup, reset_api_disable and set_force_online
\* in one behaviour of the limiter of weather_openmeteo.py
MaxLegacyCalls == 3

(***************************************************************************)
(* Program constants, in ticks of 50 ms.                                   *)
(***************************************************************************)
\* weather_service.py:26   RATE_LIMIT_SECONDS = 1.15
RATE_LIMIT_SECONDS == 23
\* weather_service.py:195  time.time() + 60.0
BREAKER_SECONDS == 1200
\* weather_service.py:172  delays = [1, 2, 4]
delays == <<20, 40, 80>>

Threads == 1..NumThreads

(***************************************************************************)
(* Time.                                                                   *)
(***************************************************************************)
\* time.time(): the present moment is the origin of the time axis
now == 0

\* A timestamp of the past that is a pacing interval old or older; it stands
\* for all of them, the literal 0.0 (the epoch) included: the pacing code
\* cannot tell them apart
Past == now - RATE_LIMIT_SECONDS

\* a timestamp of the past, d ticks later
Older(ts, d) == IF ts - d < Past THEN Past ELSE ts - d

\* a deadline or wake-up time, d ticks later; one that has passed is kept as
\* `now`, the literal 0.0 included
Sooner(ts, d) == IF ts - d < now THEN now ELSE ts - d

(***************************************************************************)
(* Requests.  A request is (kind, year) for the calendar day 29 February   *)
(* at one grid cell: the day exists in 2024 and not in 2023, so the set    *)
(* holds a daily and an hourly request for a valid date, a daily request   *)
(* for a date that is not a calendar date, one daily_range request and a   *)
(* request of a kind the worker does not support.                          *)
(***************************************************************************)
Years == {2023, 2024}

IsLeap(y) == (y % 4 = 0) /\ ((y % 100 # 0) \/ (y % 400 = 0))

\* datetime.date(y, 2, 29) raises ValueError unless y is a leap year
DateValid(y) == IsLeap(y)

Req(kind, y) == [kind |-> kind, year |-> y]

Requests ==
    LET
        DailyRequests == {Req("daily", y) : y \in Years}
    IN
            DailyRequests \cup {Req("hourly", 2024), Req("daily_range", 2024),
                                 Req("radar", 2024)}

\* the request key: the request itself (same kind, cell and date <=> same key)
Keys == Requests

\* kinds whose payload has a disk-cache file
HasDiskCache(k) == k.kind \in {"daily", "daily_range"}

(***************************************************************************)
(* Values.                                                                 *)
(***************************************************************************)
\* an absent payload / None / a missing file / an empty table slot
None == 0
NoError == "none"
\* the exceptions the worker stores in _Pending.error
ErrBreaker == "TemporaryAPIUnavailable: Circuit breaker active"
Err429 == "TemporaryAPIUnavailable: 429 rate-limited"
ErrRequestFailed == "RuntimeError: Request failed"
ErrHttp == "RuntimeError: HTTP status"
ErrJson == "JSONDecodeError"
ErrKind == "ValueError: Unsupported kind"

\* what one requests.get can produce
Responses == {"ok", "badjson", "429", "500", "neterror"}

\* CB_FILE does not exist.  A file that exists has a text: "num" is the
\* str() of a finite float, the deadline `until`
NoFile == [exists |-> FALSE, txt |-> "none", until |-> 0]

NoTask == [key |-> [kind |-> "none", year |-> 0], pid |-> None]

VARIABLES
    memory_cache,       \* WeatherService.memory_cache: key -> payload
    disk,               \* the disk-cache files: key -> payload
    pending,            \* WeatherService.pending: key -> _Pending (its id)
    pobjs,              \* the _Pending objects created so far (with, in
                        \* `why`, the branch of the worker that resolved it)
    request_queue,      \* WeatherService.request_queue
    worker_started,     \* _worker_started
    workers,            \* number of worker threads started
    api_disabled_until, \* weather_service._api_disabled_until
    last_request_ts,    \* WeatherService.last_request_ts
    min_interval,       \* the pacing interval the worker waits for
    wpc,                \* the worker's position in _worker_loop
    wtask,              \* the task the worker is processing
    attempt,            \* the worker's attempt index in the retry ladder
    wake_at,            \* end of the worker's current time.sleep
    th,                 \* the caller threads
    calls,              \* number of top-level calls made so far
    sent,               \* when the last outbound HTTP request was sent
    net,                \* who has a network call in flight
    served,             \* per _Pending: what each caller got from it
    hits,               \* the calls served from a cache
    resets,             \* number of reset blocks entered so far
    lifted,             \* the last reset cleared a deadline that had not
                        \* passed, and the breaker has not tripped since
    LEGACY_DISABLED_UNTIL, \* weather_openmeteo._API_DISABLED_UNTIL
    cb_file,            \* content of CB_FILE (api_disabled_until.txt)
    rpc,                \* position of a stream handler in its reset block
    LAST_REQUEST_TS,    \* weather_openmeteo._LAST_REQUEST_TS
    MIN_INTERVAL_SEC,   \* weather_openmeteo._MIN_INTERVAL_SEC
    FORCE_ONLINE,       \* weather_openmeteo._FORCE_ONLINE
    RATE_LOCK,          \* weather_openmeteo._RATE_LOCK: its holder, or None
    PENDING_REQUESTS,   \* weather_openmeteo._PENDING_REQUESTS: url -> id
    lpobjs,             \* the weather_openmeteo._Pending objects
    lth,                \* the threads inside perform_request_dedup
    lcalls,             \* calls of perform_request_dedup, resets and
                        \* set_force_online calls made so far
    rl,                 \* the offline build's RateLimiter object
    job,                \* the offline build's get_json_with_retries call
    kin,                \* two requests whose keys are computed
    kout,               \* their keys and disk-cache file names
    arg,                \* the inputs of a function studied on its own: its
                        \* arguments and what its environment answers
    ret                 \* what that function returned or raised

vars == <<memory_cache, disk, pending, pobjs, request_queue,
          worker_started, workers, api_disabled_until, last_request_ts,
          min_interval, wpc, wtask, attempt, wake_at, th, calls, sent, net,
          served, hits, resets, lifted, LEGACY_DISABLED_UNTIL, cb_file,
          rpc, LAST_REQUEST_TS, MIN_INTERVAL_SEC, FORCE_ONLINE, RATE_LOCK,
          PENDING_REQUESTS, lpobjs, lth, lcalls, rl, job, kin,
          kout, arg, ret>>

\* the state of the limiter of weather_openmeteo.py that only
\* rate_limited_request and perform_request_dedup touch
LimiterUnchanged ==
    UNCHANGED <<LAST_REQUEST_TS, MIN_INTERVAL_SEC, FORCE_ONLINE, RATE_LOCK,
                PENDING_REQUESTS, lpobjs, lth, lcalls>>

\* what no step of the backend touches: the state of the offline tile build,
\* a program of its own (offline/build_offline_tiles_openmeteo.py), the
\* arguments and results of the key functions, taken alone, and the call of
\* a function that is studied on its own
RestUnchanged == UNCHANGED <<rl, job, kin, kout, arg, ret>>


(***************************************************************************)
(* Initial state: the module globals and class attributes as the module    *)
(* body sets them (weather_service.py:26-29, 55-59; weather_openmeteo.py   *)
(* :32), an empty disk cache, and a breaker file that is either absent or  *)
(* was left by another process on the same cache directory.                *)
(***************************************************************************)
IdleThread == [pc |-> "idle", mode |-> "direct", req |-> Req("daily", 2024),
               pend |-> None, late |-> FALSE, year |-> 2023, rows |-> 0]

\* (weather_openmeteo.py:25-33, 42-43) the limiter of weather_openmeteo.py
\* before its first call
BASE_INTERVAL_SEC == 20
MAX_INTERVAL_SEC == 20
Urls == {"a", "b"}
LegacyPast == now - BASE_INTERVAL_SEC
IdleLegacy == [pc |-> "idle", url |-> "a", pend |-> None,
               val |-> [k |-> "none", v |-> 0, txt |-> "none"], mem |-> 0,
               attempts |-> 0,
               wake |-> 0, out |-> "none"]

\* (build_offline_tiles_openmeteo.py:618, 737) the offline build before it
\* runs: intervals are in milliseconds, --min-interval-s defaults to 1.15
DEFAULT_MIN_INTERVAL == 1150
IdleJob == [pc |-> "idle", attempt |-> 0, slept |-> 0, out |-> "none",
            waits |-> 0, status |-> "none"]

\* coordinates are in hundredths of a degree
KeyRequest(kind, lat, lon, year, month, day) ==
    [kind |-> kind, lat |-> lat, lon |-> lon, year |-> year, month |-> month,
     day |-> day]

\* no function is being called, none has returned
NoCall == [fn |-> "none"]

RestInit ==
    /\ rl = [min_interval_s |-> DEFAULT_MIN_INTERVAL]
    /\ job = IdleJob
    /\ kin = [i \in 1..2 |-> KeyRequest("daily", 0, 0, 2024, 1, 1)]
    /\ kout = <<>>
    /\ arg = NoCall
    /\ ret = NoCall

ServiceInit ==
    /\ memory_cache = [k \in Keys |-> None]
    /\ disk = [k \in Keys |-> None]
    /\ pending = [k \in Keys |-> None]
    /\ pobjs = <<>>
    /\ request_queue = <<>>
    /\ worker_started = FALSE
    /\ workers = 0
    /\ api_disabled_until = 0
    /\ last_request_ts = Past
    /\ min_interval = RATE_LIMIT_SECONDS
    /\ wpc = "idle"
    /\ wtask = NoTask
    /\ attempt = 0
    /\ wake_at = 0
    /\ th = [t \in Threads |-> IdleThread]
    /\ calls = 0
    /\ sent = Past
    /\ net = {}
    /\ served = <<>>
    /\ hits = {}
    /\ resets = 0
    /\ lifted = FALSE
    /\ rpc = "idle"

LimiterInit ==
    /\ LEGACY_DISABLED_UNTIL = 0
    /\ LAST_REQUEST_TS = LegacyPast
    /\ MIN_INTERVAL_SEC = BASE_INTERVAL_SEC
    /\ FORCE_ONLINE = FALSE
    /\ RATE_LOCK = None
    /\ PENDING_REQUESTS = [u \in Urls |-> None]
    /\ lpobjs = <<>>
    /\ lth = [t \in Threads |-> IdleLegacy]
    /\ lcalls = 0

Init ==
    /\ ServiceInit
    /\ LimiterInit
    /\ RestInit
    /\ cb_file \in {NoFile, [exists |-> TRUE, txt |-> "num",
                              until |-> BREAKER_SECONDS]}

\* an ensure_started that ignores _worker_started
StartsWorker_Always(started) == TRUE

(***************************************************************************)
(* WeatherService.ensure_started: under _worker_lock, start the worker     *)
(* thread unless _worker_started is set.                                   *)
(***************************************************************************)
StartsWorker(started) == ~started

(***************************************************************************)
(* The caller side: WeatherService.get_weather and get_daily_range.        *)
(***************************************************************************)

\* the call of thread t ends: it returns res or raises err.  A direct call
\* leaves the thread idle; inside fetch_daily_weather_same_day the loop
\* over the years goes on (an exception is logged and the year skipped, a
\* payload adds its row).
EndCall(t, r, res, err) ==
    IF r.mode \in {"same_day", "window"}
    THEN [r EXCEPT !.pc = "sd_year", !.year = r.year + 1, !.pend = None,
                   !.late = FALSE,
                   !.rows = IF err = NoError THEN r.rows + 1 ELSE r.rows]
    ELSE IdleThread

\* a worker that does not look at the deadline
BreakerActive_Off(t, until) == FALSE

\* line 140: time.time() < _api_disabled_until
BreakerActive(t, until) == t < until

\* a lookup that asks the breaker first and finds nothing while it is active
MemoryLookup_BreakerFirst(mc, k, active) == IF active THEN None ELSE mc[k]

\* get_weather lines 253-255 (get_daily_range 306-308): key in
\* cls.memory_cache, cls.memory_cache[key]; no look at _api_disabled_until
MemoryLookup(mc, k, active) == mc[k]

\* get_weather lines 250-255 (get_daily_range 302-308): start the worker,
\* build the key, look in the memory cache
GetWeatherEnter(t, r0) ==
    LET
        EnsureStarted ==
            /\ worker_started' = TRUE
            /\ workers' = IF StartsWorker(worker_started) THEN workers + 1 ELSE workers

        \* a fetch for key k has succeeded and its _Pending has been resolved
        Resolved(k) ==
            \E i \in 1..Len(pobjs) :
                pobjs[i].key = k /\ pobjs[i].event /\ pobjs[i].error = NoError
    IN
    LET r == [r0 EXCEPT !.late = Resolved(r0.req)]
        active == BreakerActive(now, api_disabled_until)
        found == MemoryLookup(memory_cache, r0.req, active)
    IN  /\ EnsureStarted
        /\ IF found # None
           THEN /\ th' = [th EXCEPT ![t] = EndCall(t, r, found, NoError)]
                /\ hits' = hits \cup {[key |-> r.req, tier |-> "memory",
                                       res |-> found, breaker |-> active]}
           ELSE /\ th' = [th EXCEPT ![t] =
                    [r EXCEPT !.pc = IF HasDiskCache(r.req) THEN "disk" ELSE "dedup"]]
                /\ UNCHANGED hits
        /\ UNCHANGED <<memory_cache, disk, pending, pobjs, request_queue,
                       api_disabled_until, last_request_ts, min_interval, wpc,
                       wtask, attempt, wake_at, sent, net, served,
                       LEGACY_DISABLED_UNTIL, cb_file, rpc,
                   resets, lifted>>
        /\ LimiterUnchanged
        /\ RestUnchanged

\* a thread calls get_weather(lat, lon, year, 2, 29, kind=...)
CallGetWeather(t, req) ==
    /\ th[t].pc = "idle"
    /\ calls < MaxCalls
    /\ req \in Requests
    /\ req.kind # "daily_range"
    /\ calls' = calls + 1
    /\ GetWeatherEnter(t, [th[t] EXCEPT !.mode = "direct", !.req = req])

\* a thread calls get_daily_range(lat, lon, start, end)
CallGetDailyRange(t) ==
    /\ th[t].pc = "idle"
    /\ calls < MaxCalls
    /\ calls' = calls + 1
    /\ GetWeatherEnter(t, [th[t] EXCEPT !.mode = "direct",
                                        !.req = Req("daily_range", 2024)])

\* get_weather called from the loop of fetch_daily_weather_same_day,
\* get_daily_range from the loop of fetch_daily_weather_window
Enter(t) ==
    /\ th[t].pc = "enter"
    /\ UNCHANGED calls
    /\ GetWeatherEnter(t, th[t])

\* an implementation of the disk hit that returns the file's payload and
\* leaves the memory cache as it is
StoreFromDisk_Skip(mc, k, data) == mc

\* get_weather line 264 (get_daily_range 315): cls.memory_cache[key] = data
StoreFromDisk(mc, k, data) == [mc EXCEPT ![k] = data]

\* get_weather lines 257-267 (get_daily_range 309-318): the disk cache
DiskCheck(t) ==
    LET r == th[t] IN
    /\ r.pc = "disk"
    /\ IF disk[r.req] # None
       THEN /\ memory_cache' = StoreFromDisk(memory_cache, r.req, disk[r.req])
            /\ th' = [th EXCEPT ![t] = EndCall(t, r, disk[r.req], NoError)]
            /\ hits' = hits \cup {[key |-> r.req, tier |-> "disk",
                                   res |-> disk[r.req],
                                   breaker |-> BreakerActive(now, api_disabled_until)]}
       ELSE /\ th' = [th EXCEPT ![t].pc = "dedup"]
            /\ UNCHANGED <<memory_cache, hits>>
    /\ UNCHANGED <<disk, pending, pobjs, request_queue, worker_started,
                   workers, api_disabled_until, last_request_ts, min_interval,
                   wpc, wtask, attempt, wake_at, calls, sent, net, served,
                   LEGACY_DISABLED_UNTIL, cb_file, rpc,
                   resets, lifted>>
    /\ LimiterUnchanged
    /\ RestUnchanged

\* get_weather lines 269-271: pending = cls.pending.get(key)
Dedup(t) ==
    LET r == th[t] IN
    /\ r.pc = "dedup"
    /\ th' = [th EXCEPT ![t] =
                IF pending[r.req] # None
                THEN [r EXCEPT !.pc = "join", !.pend = pending[r.req]]
                ELSE [r EXCEPT !.pc = "create"]]
    /\ UNCHANGED <<memory_cache, disk, pending, pobjs, request_queue,
                   worker_started, workers, api_disabled_until,
                   last_request_ts, min_interval, wpc, wtask, attempt, wake_at,
                   calls, sent, net, served, LEGACY_DISABLED_UNTIL, cb_file, rpc,
                   hits, resets, lifted>>
    /\ LimiterUnchanged
    /\ RestUnchanged

\* get_weather lines 277-278: a new _Pending, stored in the pending table
Create(t) ==
    LET r == th[t]
        id == Len(pobjs) + 1
    IN
    /\ r.pc = "create"
    /\ pobjs' = Append(pobjs, [key |-> r.req, event |-> FALSE,
                               result |-> None, error |-> NoError,
                               why |-> "unresolved"])
    /\ served' = Append(served, {})
    /\ pending' = [pending EXCEPT ![r.req] = id]
    /\ th' = [th EXCEPT ![t] = [r EXCEPT !.pc = "put", !.pend = id]]
    /\ UNCHANGED <<memory_cache, disk, request_queue, worker_started,
                   workers, api_disabled_until, last_request_ts, min_interval,
                   wpc, wtask, attempt, wake_at, calls, sent, net,
                   LEGACY_DISABLED_UNTIL, cb_file, rpc,
                   hits, resets, lifted>>
    /\ LimiterUnchanged
    /\ RestUnchanged

\* get_weather lines 279-283: cls.request_queue.put((key, params, pending))
Put(t) ==
    LET r == th[t] IN
    /\ r.pc = "put"
    /\ request_queue' = Append(request_queue, [key |-> r.req, pid |-> r.pend])
    /\ th' = [th EXCEPT ![t].pc = "wait"]
    /\ UNCHANGED <<memory_cache, disk, pending, pobjs, worker_started,
                   workers, api_disabled_until, last_request_ts, min_interval,
                   wpc, wtask, attempt, wake_at, calls, sent, net, served,
                   LEGACY_DISABLED_UNTIL, cb_file, rpc,
                   hits, resets, lifted>>
    /\ LimiterUnchanged
    /\ RestUnchanged

\* a creator that leaves its entry in the pending table
PopEntry_Keep(table, k) == table

\* get_weather lines 286-289: cls.pending.pop(key, None)
PopEntry(table, k) == [table EXCEPT ![k] = None]

\* get_weather lines 284-289: pending.event.wait() returns, then
\* cls.pending.pop(key, None)
Pop(t) ==
    LET r == th[t] IN
    /\ r.pc = "wait"
    /\ pobjs[r.pend].event
    /\ pending' = PopEntry(pending, r.req)
    /\ th' = [th EXCEPT ![t].pc = "ret"]
    /\ UNCHANGED <<memory_cache, disk, pobjs, request_queue,
                   worker_started, workers, api_disabled_until,
                   last_request_ts, min_interval, wpc, wtask, attempt, wake_at,
                   calls, sent, net, served, LEGACY_DISABLED_UNTIL, cb_file, rpc,
                   hits, resets, lifted>>
    /\ LimiterUnchanged
    /\ RestUnchanged

\* get_weather lines 290-292: the creator raises the error or returns the
\* result; get_daily_range lines 342-348 also stores the result in the
\* memory cache before it returns
Return(t) ==
    LET
        \* what a caller holding _Pending p gets: "if pending.error: raise
        \* pending.error" and otherwise "return pending.result"
        Outcome(p) ==
            IF p.error # NoError THEN [res |-> None, err |-> p.error]
            ELSE [res |-> p.result, err |-> NoError]
    IN
    LET r == th[t]
        o == Outcome(pobjs[r.pend])
    IN
    /\ r.pc = "ret"
    /\ memory_cache' =
          IF r.req.kind = "daily_range" /\ o.err = NoError
          THEN [memory_cache EXCEPT ![r.req] = o.res]
          ELSE memory_cache
    /\ served' = [served EXCEPT ![r.pend] =
                     @ \cup {[role |-> "creator", res |-> o.res, err |-> o.err]}]
    /\ th' = [th EXCEPT ![t] = EndCall(t, r, o.res, o.err)]
    /\ UNCHANGED <<disk, pending, pobjs, request_queue, worker_started,
                   workers, api_disabled_until, last_request_ts, min_interval,
                   wpc, wtask, attempt, wake_at, calls, sent, net,
                   LEGACY_DISABLED_UNTIL, cb_file, rpc,
                   hits, resets, lifted>>
    /\ LimiterUnchanged
    /\ RestUnchanged

\* a joiner that returns pending.result without looking at pending.error
JoinOutcome_NoRaise(p) == [res |-> p.result, err |-> NoError]

\* lines 273-275: what a joiner of _Pending p gets, by the same two lines
JoinOutcome(p) ==
    IF p.error # NoError THEN [res |-> None, err |-> p.error]
    ELSE [res |-> p.result, err |-> NoError]

\* get_weather lines 272-275: a joiner's pending.event.wait() returns; it
\* raises the error or returns the result
JoinReturn(t) ==
    LET r == th[t]
        o == JoinOutcome(pobjs[r.pend])
    IN
    /\ r.pc = "join"
    /\ pobjs[r.pend].event
    /\ served' = [served EXCEPT ![r.pend] =
                     @ \cup {[role |-> "joiner", res |-> o.res, err |-> o.err]}]
    /\ th' = [th EXCEPT ![t] = EndCall(t, r, o.res, o.err)]
    /\ UNCHANGED <<memory_cache, disk, pending, pobjs, request_queue,
                   worker_started, workers, api_disabled_until,
                   last_request_ts, min_interval, wpc, wtask, attempt, wake_at,
                   calls, sent, net, LEGACY_DISABLED_UNTIL, cb_file, rpc,
                   hits, resets, lifted>>
    /\ LimiterUnchanged
    /\ RestUnchanged


(***************************************************************************)
(* The worker thread: WeatherService._worker_loop.                         *)
(***************************************************************************)
WorkerUnchanged ==
    /\ UNCHANGED <<worker_started, workers, th, calls, hits, resets,
                   LEGACY_DISABLED_UNTIL, cb_file, rpc, min_interval>>
    /\ LimiterUnchanged
    /\ RestUnchanged

\* pending.error = e; pending.event.set()
FailTask(pid, e, why) ==
    pobjs' = [pobjs EXCEPT ![pid].error = e, ![pid].event = TRUE,
                           ![pid].why = why]

\* lines 138-144: take the next task; fail it at once while the breaker is
\* active
Take ==
    /\ workers >= 1
    /\ wpc = "idle"
    /\ request_queue # <<>>
    /\ request_queue' = Tail(request_queue)
    /\ IF BreakerActive(now, api_disabled_until)
       THEN /\ FailTask(Head(request_queue).pid, ErrBreaker, "breaker")
            /\ UNCHANGED <<wpc, wtask>>
       ELSE /\ wpc' = "pace"
            /\ wtask' = Head(request_queue)
            /\ UNCHANGED pobjs
    /\ UNCHANGED <<memory_cache, disk, pending, api_disabled_until,
                   last_request_ts, attempt, wake_at, sent, net, served,
                   lifted>>
    /\ WorkerUnchanged

Pace ==
    LET
        \* lines 146-151: how long the worker sleeps before the task's first request
        PaceSleep(t, last, interval) ==
            IF t - last < interval THEN interval - (t - last) ELSE 0
    IN
    /\ wpc = "pace"
    /\ wpc' = "sleep"
    /\ wake_at' = now + PaceSleep(now, last_request_ts, min_interval)
    /\ UNCHANGED <<memory_cache, disk, pending, pobjs, request_queue,
                   api_disabled_until, last_request_ts, wtask, attempt, sent,
                   net, served, lifted>>
    /\ WorkerUnchanged

\* requests.get(url, timeout=30) is entered: one outbound HTTP request
SendRequest ==
    /\ sent' = now
    /\ net' = net \cup {0}

\* lines 152-176: the sleep is over; stamp last_request_ts, build the URL and
\* send the first request.  datetime.date raises ValueError for a date that
\* does not exist: nothing in the loop catches it and the thread ends.
FirstRequest ==
    /\ wpc = "sleep"
    /\ now >= wake_at
    /\ last_request_ts' = now
    /\ attempt' = 0
    /\ wake_at' = 0
    /\ IF wtask.key.kind \in {"daily", "hourly"} /\ ~DateValid(wtask.key.year)
       THEN /\ wpc' = "crashed"
            /\ UNCHANGED <<pobjs, sent, net, wtask>>
       ELSE IF wtask.key.kind \notin {"daily", "hourly", "daily_range"}
       THEN /\ FailTask(wtask.pid, ErrKind, "kind")
            /\ wpc' = "idle"
            /\ wtask' = NoTask
            /\ UNCHANGED <<sent, net>>
       ELSE /\ SendRequest
            /\ wpc' = "await"
            /\ UNCHANGED <<pobjs, wtask>>
    /\ UNCHANGED <<memory_cache, disk, pending, request_queue,
                   api_disabled_until, served, lifted>>
    /\ WorkerUnchanged

\* lines 183 and 189: time.sleep(delay) is over; the next attempt's request
Retry ==
    /\ wpc = "backoff"
    /\ now >= wake_at
    /\ SendRequest
    /\ wpc' = "await"
    /\ wake_at' = 0
    /\ UNCHANGED <<memory_cache, disk, pending, pobjs, request_queue,
                   api_disabled_until, last_request_ts, wtask, attempt,
                   served, lifted>>
    /\ WorkerUnchanged

\* a ladder that also goes round again after a server error
Retries_AlsoServer(r, att) ==
    r \in {"429", "neterror", "500"} /\ att < Len(delays)

\* lines 177-192: does the loop go round again after this attempt's answer
Retries(r, att) == r \in {"429", "neterror"} /\ att < Len(delays)

\* a breaker that holds for one pacing interval only
TripDeadline_Short(t) == t + RATE_LIMIT_SECONDS

\* line 195: the breaker's deadline after a final 429
TripDeadline(t) == t + BREAKER_SECONDS

\* every final failure reported as the final 429 is
FinalError_Unavailable(r) == Err429

\* lines 193-213: the error a final answer other than a parsable 200 gives
FinalError(r) ==
    CASE r = "429" -> Err429
      [] r = "neterror" -> ErrRequestFailed
      [] r = "500" -> ErrHttp
      [] r = "badjson" -> ErrJson

\* lines 176-235: the answer to the request in flight arrives.  A 429 or a
\* network error before the ladder is used up sleeps and goes round again;
\* a final 429 trips the breaker; every other failure fails the task; a
\* parsable 200 is written to the disk cache (daily kinds) and resolves the
\* _Pending.
Response(r) ==
    LET t1 == now
        payload == wtask.pid
    IN
    /\ wpc = "await"
    /\ net' = net \ {0}
    /\ IF Retries(r, attempt)
       THEN /\ wpc' = "backoff"
            /\ wake_at' = t1 + delays[attempt + 1]
            /\ attempt' = attempt + 1
            /\ UNCHANGED <<pobjs, disk, api_disabled_until, wtask, lifted>>
       ELSE IF r # "ok"
       THEN /\ FailTask(wtask.pid, FinalError(r), r)
            /\ api_disabled_until' =
                  IF r = "429" THEN TripDeadline(t1) ELSE api_disabled_until
            /\ lifted' = IF r = "429" THEN FALSE ELSE lifted
            /\ wpc' = "idle"
            /\ wtask' = NoTask
            /\ attempt' = 0
            /\ UNCHANGED <<disk, wake_at>>
       ELSE /\ disk' = IF HasDiskCache(wtask.key)
                       THEN [disk EXCEPT ![wtask.key] = payload] ELSE disk
            /\ pobjs' = [pobjs EXCEPT ![wtask.pid].result = payload,
                                      ![wtask.pid].event = TRUE,
                                      ![wtask.pid].why = "ok"]
            /\ wpc' = "store"
            /\ attempt' = 0
            /\ UNCHANGED <<api_disabled_until, wake_at, wtask, lifted>>
    /\ UNCHANGED <<memory_cache, pending, request_queue, last_request_ts,
                   sent, served>>
    /\ WorkerUnchanged

\* lines 236-240: cls.memory_cache[key] = j, after the event was set
StoreMemory ==
    /\ wpc = "store"
    /\ memory_cache' = [memory_cache EXCEPT ![wtask.key] = pobjs[wtask.pid].result]
    /\ wpc' = "idle"
    /\ wtask' = NoTask
    /\ UNCHANGED <<disk, pending, pobjs, request_queue,
                   api_disabled_until, last_request_ts, attempt, wake_at, sent,
                   net, served, lifted>>
    /\ WorkerUnchanged


(***************************************************************************)
(* fetch_daily_weather_same_day(lat, lon, 2, 29, years_window) of          *)
(* weather_openmeteo.py: one get_weather call per year of the window, and  *)
(* the Meteostat fallback when no year gave a row.                         *)
(***************************************************************************)
FirstYear == CHOOSE y \in Years : \A z \in Years : y <= z
LastYear == CHOOSE y \in Years : \A z \in Years : z <= y

\* a fallback that is tried whatever the primary path gave
NeedsFallback_Always(rows) == TRUE

\* lines 405-406 (window: 494-495): df = pd.DataFrame(rows); len(df) == 0
NeedsFallback(rows) == rows = 0

\* lines 360-388 for the year r.year, and lines 405-422 after the last
\* year; fetch_daily_weather_window does the same with one get_daily_range
\* call per year (lines 456-468) and no cache look-up of its own, and
\* lines 494-518 after the last year
SameDayStep(t, r) ==
    IF r.year > LastYear
    THEN IF NeedsFallback(r.rows)
         THEN \* lines 406-410: the fallback's network calls are made here,
              \* in the calling thread
              /\ th' = [th EXCEPT ![t] = [r EXCEPT !.pc = "meteostat"]]
              /\ net' = net \cup {t}
              /\ UNCHANGED <<worker_started, workers>>
         ELSE /\ th' = [th EXCEPT ![t] = IdleThread]
              /\ UNCHANGED <<net, worker_started, workers>>
    ELSE /\ th' = [th EXCEPT ![t] =
                IF r.mode = "same_day" /\ disk[Req("daily", r.year)] # None
                THEN [r EXCEPT !.rows = r.rows + 1, !.year = r.year + 1,
                               !.pc = "sd_year"]
                ELSE IF ~DateValid(r.year)
                THEN [r EXCEPT !.year = r.year + 1, !.pc = "sd_year"]
                ELSE [r EXCEPT !.req = Req(IF r.mode = "same_day"
                                           THEN "daily" ELSE "daily_range",
                                           r.year),
                               !.pc = "enter"]]
         /\ UNCHANGED <<net, worker_started, workers>>

CallSameDay(t) ==
    /\ th[t].pc = "idle"
    /\ calls < MaxCalls
    /\ calls' = calls + 1
    /\ SameDayStep(t, [th[t] EXCEPT !.mode = "same_day", !.year = FirstYear,
                                    !.rows = 0, !.late = FALSE])
    /\ UNCHANGED <<memory_cache, disk, pending, pobjs, request_queue,
                   api_disabled_until, last_request_ts, min_interval, wpc,
                   wtask, attempt, wake_at, sent, served,
                   LEGACY_DISABLED_UNTIL, cb_file, rpc,
                   hits, resets, lifted>>
    /\ LimiterUnchanged
    /\ RestUnchanged

\* a thread calls fetch_daily_weather_window(lat, lon, 2, 29, span_days)
CallWindow(t) ==
    /\ th[t].pc = "idle"
    /\ calls < MaxCalls
    /\ calls' = calls + 1
    /\ SameDayStep(t, [th[t] EXCEPT !.mode = "window", !.year = FirstYear,
                                    !.rows = 0, !.late = FALSE])
    /\ UNCHANGED <<memory_cache, disk, pending, pobjs, request_queue,
                   api_disabled_until, last_request_ts, min_interval, wpc,
                   wtask, attempt, wake_at, sent, served,
                   LEGACY_DISABLED_UNTIL, cb_file, rpc,
                   hits, resets, lifted>>
    /\ LimiterUnchanged
    /\ RestUnchanged

SameDayYear(t) ==
    /\ th[t].pc = "sd_year"
    /\ SameDayStep(t, th[t])
    /\ UNCHANGED <<memory_cache, disk, pending, pobjs, request_queue,
                   api_disabled_until, last_request_ts, min_interval, wpc,
                   wtask, attempt, wake_at, calls, sent, served,
                   LEGACY_DISABLED_UNTIL, cb_file, rpc,
                   hits, resets, lifted>>
    /\ LimiterUnchanged
    /\ RestUnchanged

\* lines 410-416 (window: 499-505): the Meteostat function returns (rows
\* or none) or raises; the caller returns df2 or the empty frame
MeteostatDone(t) ==
    /\ th[t].pc = "meteostat"
    /\ net' = net \ {t}
    /\ th' = [th EXCEPT ![t] = IdleThread]
    /\ UNCHANGED <<memory_cache, disk, pending, pobjs, request_queue,
                   worker_started, workers, api_disabled_until,
                   last_request_ts, min_interval, wpc, wtask, attempt, wake_at,
                   calls, sent, served, LEGACY_DISABLED_UNTIL, cb_file, rpc,
                   hits, resets, lifted>>
    /\ LimiterUnchanged
    /\ RestUnchanged

(***************************************************************************)
(* The reset block of a stream request with reset_api=1 (app.py:863-866):  *)
(* weather_openmeteo.reset_api_disable(), then                             *)
(* weather_service.reset_api_disable().                                    *)
(***************************************************************************)
ResetUnchanged ==
    UNCHANGED <<memory_cache, disk, pending, pobjs, request_queue,
                worker_started, workers, min_interval, wpc, wtask, attempt,
                wake_at, th, calls, sent, net, served, hits>>

\* weather_openmeteo.py:64-76: clear the legacy deadline, put the legacy
\* pacing back to its defaults, unlink CB_FILE
ResetLegacy ==
    /\ LEGACY_DISABLED_UNTIL' = 0
    /\ MIN_INTERVAL_SEC' = BASE_INTERVAL_SEC
    /\ LAST_REQUEST_TS' = LegacyPast
    /\ cb_file' = NoFile

\* a reset that leaves the service's deadline as it is
ResetService_KeepsDeadline ==
    /\ rpc = "idle"
    /\ resets < MaxResets
    /\ resets' = resets + 1
    /\ ResetLegacy
    /\ lifted' = FALSE
    /\ rpc' = "deadline_cleared"
    /\ UNCHANGED <<api_disabled_until, last_request_ts>>
    /\ UNCHANGED <<FORCE_ONLINE, RATE_LOCK, PENDING_REQUESTS, lpobjs, lth,
                   lcalls>>
    /\ ResetUnchanged
    /\ RestUnchanged

\* app.py:863-866 up to weather_service.py:37-38: the legacy reset, then
\* _api_disabled_until = 0.0.  The service reads and writes nothing of what
\* the legacy reset touches, so the two resets are one step.
ResetService ==
    /\ rpc = "idle"
    /\ resets < MaxResets
    /\ resets' = resets + 1
    /\ ResetLegacy
    /\ api_disabled_until' = 0
    /\ lifted' = BreakerActive(now, api_disabled_until)
    /\ rpc' = "deadline_cleared"
    /\ UNCHANGED last_request_ts
    /\ UNCHANGED <<FORCE_ONLINE, RATE_LOCK, PENDING_REQUESTS, lpobjs, lth,
                   lcalls>>
    /\ ResetUnchanged
    /\ RestUnchanged

\* weather_service.py:39-43: WeatherService.last_request_ts = 0.0
ResetPacing ==
    /\ rpc = "deadline_cleared"
    /\ last_request_ts' = Past
    /\ rpc' = "idle"
    /\ UNCHANGED <<api_disabled_until, LEGACY_DISABLED_UNTIL, cb_file, resets,
                   lifted>>
    /\ ResetUnchanged
    /\ LimiterUnchanged
    /\ RestUnchanged

(***************************************************************************)
(* Time passes: to the end of the worker's sleep, of the pacing window or  *)
(* of the breaker window.                                                  *)
(***************************************************************************)

AdvanceTime ==
    LET
        Timers ==
            {api_disabled_until, last_request_ts + min_interval}
                \cup (IF wpc \in {"sleep", "backoff"} THEN {wake_at} ELSE {})
    IN
    /\ \E target \in Timers :
        LET d == target - now IN
        /\ d > 0
        /\ last_request_ts' = Older(last_request_ts, d)
        /\ sent' = Older(sent, d)
        /\ wake_at' = Sooner(wake_at, d)
        /\ api_disabled_until' = Sooner(api_disabled_until, d)
        /\ LEGACY_DISABLED_UNTIL' = Sooner(LEGACY_DISABLED_UNTIL, d)
        /\ cb_file' = [cb_file EXCEPT !.until = Sooner(@, d)]
        /\ LAST_REQUEST_TS' =
              IF LAST_REQUEST_TS - d < LegacyPast THEN LegacyPast
              ELSE LAST_REQUEST_TS - d
    /\ UNCHANGED <<memory_cache, disk, pending, pobjs, request_queue,
                   worker_started, workers, min_interval, wpc, wtask, attempt,
                   th, calls, net, served, hits, resets, lifted, rpc>>
    /\ UNCHANGED <<MIN_INTERVAL_SEC, FORCE_ONLINE, RATE_LOCK,
                   PENDING_REQUESTS, lpobjs, lth, lcalls>>
    /\ RestUnchanged

Next ==
    \/ \E t \in Threads, req \in Requests : CallGetWeather(t, req)
    \/ \E t \in Threads : CallGetDailyRange(t)
    \/ \E t \in Threads : CallSameDay(t)
    \/ \E t \in Threads : CallWindow(t)
    \/ \E t \in Threads : Enter(t)
    \/ \E t \in Threads : DiskCheck(t)
    \/ \E t \in Threads : Dedup(t)
    \/ \E t \in Threads : Create(t)
    \/ \E t \in Threads : Put(t)
    \/ \E t \in Threads : Pop(t)
    \/ \E t \in Threads : Return(t)
    \/ \E t \in Threads : JoinReturn(t)
    \/ \E t \in Threads : SameDayYear(t)
    \/ \E t \in Threads : MeteostatDone(t)
    \/ Take
    \/ Pace
    \/ FirstRequest
    \/ Retry
    \/ \E r \in Responses : Response(r)
    \/ StoreMemory
    \/ ResetService
    \/ ResetPacing
    \/ AdvanceTime

Spec == Init /\ [][Next]_vars

(***************************************************************************)
(* The service some way into the life of a process: an earlier call has    *)
(* fetched the day of 2024, which is in the memory cache and on disk; the  *)
(* file of 2023 is on disk from an earlier run; the worker runs and is     *)
(* idle; an earlier failure may have tripped the breaker, which then has   *)
(* its whole time to run.  The _Pending objects of the earlier calls are   *)
(* gone.                                                                   *)
(***************************************************************************)
WarmInit ==
    /\ LimiterInit
    /\ RestInit
    /\ cb_file = NoFile
    /\ memory_cache = [k \in Keys |-> IF k = Req("daily", 2024) THEN 8 ELSE None]
    /\ disk = [k \in Keys |-> IF k = Req("daily", 2024) THEN 8
                              ELSE IF k = Req("daily", 2023) THEN 9
                              ELSE None]
    /\ pending = [k \in Keys |-> None]
    /\ pobjs = <<>>
    /\ request_queue = <<>>
    /\ worker_started = TRUE
    /\ workers = 1
    /\ api_disabled_until \in {0, TripDeadline(now)}
    /\ last_request_ts = Past
    /\ min_interval = RATE_LIMIT_SECONDS
    /\ wpc = "idle"
    /\ wtask = NoTask
    /\ attempt = 0
    /\ wake_at = 0
    /\ th = [t \in Threads |-> IdleThread]
    /\ calls = 0
    /\ sent = Past
    /\ net = {}
    /\ served = <<>>
    /\ hits = {}
    /\ resets = 0
    /\ lifted = FALSE
    /\ rpc = "idle"

WarmSpec == WarmInit /\ [][Next]_vars


(***************************************************************************)
(* The limiter of weather_openmeteo.py: perform_request_dedup and          *)
(* rate_limited_request, called by several threads, with the breaker file  *)
(* as another instance or an earlier run may have left it.  Nothing here   *)
(* is atomic but what is done inside "with _RATE_LOCK".                    *)
(***************************************************************************)
ServiceUnchanged ==
    UNCHANGED <<memory_cache, disk, pending, pobjs, request_queue,
                worker_started, workers, api_disabled_until, last_request_ts,
                min_interval, wpc, wtask, attempt, wake_at, th, calls, served,
                hits, resets, lifted, rpc>>

\* float('inf'): later than every timestamp, and no time that passes
\* brings it nearer
Infinity == 1000000

\* lines 98-109: with _RATE_LOCK, look the url up in _PENDING_REQUESTS and
\* wait for the request in flight, or register a new _Pending
CallDedup(t, u) ==
    LET id == Len(lpobjs) + 1 IN
    /\ lth[t].pc = "idle"
    /\ lcalls < MaxLegacyCalls
    /\ lcalls' = lcalls + 1
    /\ RATE_LOCK = None
    /\ IF PENDING_REQUESTS[u] # None
       THEN /\ lth' = [lth EXCEPT ![t] = [IdleLegacy EXCEPT
                         !.pc = "dd_wait", !.url = u,
                         !.pend = PENDING_REQUESTS[u]]]
            /\ UNCHANGED <<PENDING_REQUESTS, lpobjs>>
       ELSE /\ lpobjs' = Append(lpobjs, [event |-> FALSE, response |-> "none",
                                          error |-> "none"])
            /\ PENDING_REQUESTS' = [PENDING_REQUESTS EXCEPT ![u] = id]
            /\ lth' = [lth EXCEPT ![t] = [IdleLegacy EXCEPT
                         !.pc = "sync_read", !.url = u, !.pend = id]]
    /\ UNCHANGED <<LAST_REQUEST_TS, MIN_INTERVAL_SEC, FORCE_ONLINE, RATE_LOCK,
                   LEGACY_DISABLED_UNTIL, cb_file, net, sent>>
    /\ ServiceUnchanged
    /\ RestUnchanged

\* lines 110-114: the waiter's wait_event.wait() returns, outside the lock
DedupWait(t) ==
    /\ lth[t].pc = "dd_wait"
    /\ lpobjs[lth[t].pend].event
    /\ lth' = [lth EXCEPT ![t] = IdleLegacy]
    /\ UNCHANGED <<LAST_REQUEST_TS, MIN_INTERVAL_SEC, FORCE_ONLINE, RATE_LOCK,
                   PENDING_REQUESTS, lpobjs, lcalls, LEGACY_DISABLED_UNTIL,
                   cb_file, net, sent>>
    /\ ServiceUnchanged
    /\ RestUnchanged

\* _sync_disabled_from_file, lines 85-88: read the file
SyncRead(t) ==
    LET
        \* lines 85-88: CB_FILE.exists(), read_text().strip(), float(txt) if txt
        \* else 0.0.  "skip" is the way out without an assignment: no file, or an
        \* exception that line 90 swallows; txt is the text that was read
        SyncValue(f) ==
            IF ~f.exists THEN [k |-> "skip", v |-> 0, txt |-> "none"]
            ELSE CASE f.txt = "num" -> [k |-> "val", v |-> f.until, txt |-> f.txt]
                   [] f.txt = "empty" -> [k |-> "val", v |-> 0, txt |-> f.txt]
                   [] f.txt = "inf" -> [k |-> "val", v |-> Infinity, txt |-> f.txt]
                   [] f.txt = "nan" -> [k |-> "nan", v |-> 0, txt |-> f.txt]
                   [] OTHER -> [k |-> "skip", v |-> 0, txt |-> f.txt]
    IN
    LET val == SyncValue(cb_file) IN
    /\ lth[t].pc = "sync_read"
    /\ lth' = [lth EXCEPT ![t].val = val,
                          ![t].pc = IF val.k = "skip" THEN "check"
                                    ELSE "sync_load"]
    /\ UNCHANGED <<LAST_REQUEST_TS, MIN_INTERVAL_SEC, FORCE_ONLINE, RATE_LOCK,
                   PENDING_REQUESTS, lpobjs, lcalls, LEGACY_DISABLED_UNTIL,
                   cb_file, net, sent>>
    /\ ServiceUnchanged
    /\ RestUnchanged

\* line 89, first half: the global _API_DISABLED_UNTIL is loaded
SyncLoad(t) ==
    /\ lth[t].pc = "sync_load"
    /\ lth' = [lth EXCEPT ![t].mem = LEGACY_DISABLED_UNTIL,
                          ![t].pc = "sync_store"]
    /\ UNCHANGED <<LAST_REQUEST_TS, MIN_INTERVAL_SEC, FORCE_ONLINE, RATE_LOCK,
                   PENDING_REQUESTS, lpobjs, lcalls, LEGACY_DISABLED_UNTIL,
                   cb_file, net, sent>>
    /\ ServiceUnchanged
    /\ RestUnchanged

\* line 89, second half: the maximum is stored in the global
SyncStore(t) ==
    LET
        \* line 89: max(_API_DISABLED_UNTIL, val) as Python computes it: the first
        \* argument unless the second is greater, and nan is greater than nothing
        PyMax(a, val) ==
            IF val.k = "nan" THEN a ELSE IF val.v > a THEN val.v ELSE a
    IN
    /\ lth[t].pc = "sync_store"
    /\ LEGACY_DISABLED_UNTIL' = PyMax(lth[t].mem, lth[t].val)
    /\ lth' = [lth EXCEPT ![t].pc = "check"]
    /\ UNCHANGED <<LAST_REQUEST_TS, MIN_INTERVAL_SEC, FORCE_ONLINE, RATE_LOCK,
                   PENDING_REQUESTS, lpobjs, lcalls, cb_file, net, sent>>
    /\ ServiceUnchanged
    /\ RestUnchanged

\* lines 164-170: with the breaker active the call is answered by a dummy
\* 429 without a request
Check(t) ==
    LET
        \* line 164: (not _FORCE_ONLINE) and time.time() < _API_DISABLED_UNTIL
        LegacyDisabled(force, tt, until) == ~force /\ tt < until
    IN
    /\ lth[t].pc = "check"
    /\ lth' = [lth EXCEPT ![t] =
                IF LegacyDisabled(FORCE_ONLINE, now, LEGACY_DISABLED_UNTIL)
                THEN [@ EXCEPT !.out = "dummy429", !.pc = "publish"]
                ELSE [@ EXCEPT !.pc = "lock"]]
    /\ UNCHANGED <<LAST_REQUEST_TS, MIN_INTERVAL_SEC, FORCE_ONLINE, RATE_LOCK,
                   PENDING_REQUESTS, lpobjs, lcalls, LEGACY_DISABLED_UNTIL,
                   cb_file, net, sent>>
    /\ ServiceUnchanged
    /\ RestUnchanged

\* line 181-182: requests.get(url, timeout=30) is entered
LegacySend(t) ==
    /\ net' = net \cup {t}
    /\ sent' = now

\* lines 172-179: _RATE_LOCK is taken; when the last request is less than
\* the interval ago the thread sleeps with the lock held, otherwise it
\* stamps _LAST_REQUEST_TS, leaves the lock and sends
Lock(t) ==
    LET elapsed == now - LAST_REQUEST_TS IN
    /\ lth[t].pc = "lock"
    /\ RATE_LOCK = None
    /\ IF elapsed < MIN_INTERVAL_SEC
       THEN /\ RATE_LOCK' = t
            /\ lth' = [lth EXCEPT ![t].pc = "pace_sleep",
                                  ![t].wake = now + (MIN_INTERVAL_SEC - elapsed)]
            /\ UNCHANGED <<LAST_REQUEST_TS, net, sent>>
       ELSE /\ LAST_REQUEST_TS' = now
            /\ LegacySend(t)
            /\ lth' = [lth EXCEPT ![t].pc = "await"]
            /\ UNCHANGED RATE_LOCK
    /\ UNCHANGED <<MIN_INTERVAL_SEC, FORCE_ONLINE, PENDING_REQUESTS, lpobjs,
                   lcalls, LEGACY_DISABLED_UNTIL, cb_file>>
    /\ ServiceUnchanged
    /\ RestUnchanged

\* lines 178-182: the sleep is over; stamp, leave the lock, send
PaceWake(t) ==
    /\ lth[t].pc = "pace_sleep"
    /\ now >= lth[t].wake
    /\ LAST_REQUEST_TS' = now
    /\ RATE_LOCK' = None
    /\ LegacySend(t)
    /\ lth' = [lth EXCEPT ![t].pc = "await", ![t].wake = 0]
    /\ UNCHANGED <<MIN_INTERVAL_SEC, FORCE_ONLINE, PENDING_REQUESTS, lpobjs,
                   lcalls, LEGACY_DISABLED_UNTIL, cb_file>>
    /\ ServiceUnchanged
    /\ RestUnchanged

\* lines 182-201 (and 51-54): the answer arrives.  An exception of
\* requests.get leaves rate_limited_request; every status but 429 relaxes the
\* interval and is returned; a 429 doubles the interval and is retried after
\* delays[attempts]; the 429 after the last retry sets the deadline in memory.
LegacyResponse(t, r) ==
    LET
        \* line 54: _API_DISABLED_UNTIL = time.time() + max(0.0, float(seconds))
        MarkDeadline(tt, seconds) == tt + (IF seconds > 0 THEN seconds ELSE 0)

        \* lines 152-155: _adjust_interval_on_success (m * 0.9, in whole ticks)
        AdjustOnSuccess(m) ==
            IF m > BASE_INTERVAL_SEC
            THEN (IF (m * 9) \div 10 > BASE_INTERVAL_SEC THEN (m * 9) \div 10
                  ELSE BASE_INTERVAL_SEC)
            ELSE m

        \* lines 147-149: _adjust_interval_on_429
        AdjustOn429(m) ==
            IF m * 2 < MAX_INTERVAL_SEC THEN m * 2 ELSE MAX_INTERVAL_SEC
    IN
    /\ lth[t].pc = "await"
    /\ net' = net \ {t}
    /\ IF r = "neterror"
       THEN /\ lth' = [lth EXCEPT ![t].out = "error", ![t].pc = "publish"]
            /\ UNCHANGED <<MIN_INTERVAL_SEC, LEGACY_DISABLED_UNTIL>>
       ELSE IF r = "ok"
       THEN /\ MIN_INTERVAL_SEC' = AdjustOnSuccess(MIN_INTERVAL_SEC)
            /\ lth' = [lth EXCEPT ![t].out = "ok", ![t].pc = "publish"]
            /\ UNCHANGED LEGACY_DISABLED_UNTIL
       ELSE /\ MIN_INTERVAL_SEC' = AdjustOn429(MIN_INTERVAL_SEC)
            /\ IF lth[t].attempts < Len(delays)
               THEN /\ lth' = [lth EXCEPT
                                 ![t].pc = "backoff",
                                 ![t].wake = now + delays[lth[t].attempts + 1],
                                 ![t].attempts = @ + 1]
                    /\ UNCHANGED LEGACY_DISABLED_UNTIL
               ELSE /\ LEGACY_DISABLED_UNTIL' = MarkDeadline(now, BREAKER_SECONDS)
                    /\ lth' = [lth EXCEPT ![t].out = "429",
                                          ![t].pc = "mark_file"]
    /\ UNCHANGED <<LAST_REQUEST_TS, FORCE_ONLINE, RATE_LOCK, PENDING_REQUESTS,
                   lpobjs, lcalls, cb_file, sent>>
    /\ ServiceUnchanged
    /\ RestUnchanged

\* lines 190-193: time_module.sleep(delay) is over; the next request
BackoffWake(t) ==
    /\ lth[t].pc = "backoff"
    /\ now >= lth[t].wake
    /\ LegacySend(t)
    /\ lth' = [lth EXCEPT ![t].pc = "await", ![t].wake = 0]
    /\ UNCHANGED <<LAST_REQUEST_TS, MIN_INTERVAL_SEC, FORCE_ONLINE, RATE_LOCK,
                   PENDING_REQUESTS, lpobjs, lcalls, LEGACY_DISABLED_UNTIL,
                   cb_file>>
    /\ ServiceUnchanged
    /\ RestUnchanged

\* lines 58-60: str(_API_DISABLED_UNTIL) is written to CB_FILE
MarkFile(t) ==
    /\ lth[t].pc = "mark_file"
    /\ cb_file' = IF LEGACY_DISABLED_UNTIL = Infinity
                  THEN [exists |-> TRUE, txt |-> "inf", until |-> 0]
                  ELSE [exists |-> TRUE, txt |-> "num",
                        until |-> LEGACY_DISABLED_UNTIL]
    /\ lth' = [lth EXCEPT ![t].pc = "publish"]
    /\ UNCHANGED <<LAST_REQUEST_TS, MIN_INTERVAL_SEC, FORCE_ONLINE, RATE_LOCK,
                   PENDING_REQUESTS, lpobjs, lcalls, LEGACY_DISABLED_UNTIL,
                   net, sent>>
    /\ ServiceUnchanged
    /\ RestUnchanged

\* lines 116-125: with _RATE_LOCK, the response or the exception is stored
\* in the _Pending and its event is set; then return or raise
Publish(t) ==
    /\ lth[t].pc = "publish"
    /\ RATE_LOCK = None
    /\ lpobjs' = [lpobjs EXCEPT ![lth[t].pend] =
                    IF lth[t].out = "error"
                    THEN [@ EXCEPT !.error = "error", !.event = TRUE]
                    ELSE [@ EXCEPT !.response = lth[t].out, !.event = TRUE]]
    /\ lth' = [lth EXCEPT ![t] = IdleLegacy]
    /\ UNCHANGED <<LAST_REQUEST_TS, MIN_INTERVAL_SEC, FORCE_ONLINE, RATE_LOCK,
                   PENDING_REQUESTS, lcalls, LEGACY_DISABLED_UNTIL, cb_file,
                   net, sent>>
    /\ ServiceUnchanged
    /\ RestUnchanged

\* weather_openmeteo.reset_api_disable, called on its own
LegacyReset ==
    /\ lcalls < MaxLegacyCalls
    /\ lcalls' = lcalls + 1
    /\ ResetLegacy
    /\ UNCHANGED <<FORCE_ONLINE, RATE_LOCK, PENDING_REQUESTS, lpobjs, lth,
                   net, sent>>
    /\ ServiceUnchanged
    /\ RestUnchanged

\* lines 78-81: set_force_online(flag)
SetForceOnline(flag) ==
    /\ lcalls < MaxLegacyCalls
    /\ lcalls' = lcalls + 1
    /\ flag # FORCE_ONLINE
    /\ FORCE_ONLINE' = flag
    /\ UNCHANGED <<LAST_REQUEST_TS, MIN_INTERVAL_SEC, RATE_LOCK,
                   PENDING_REQUESTS, lpobjs, lth, LEGACY_DISABLED_UNTIL,
                   cb_file, net, sent>>
    /\ ServiceUnchanged
    /\ RestUnchanged

\* time passes, to the end of a sleep, of the pacing window or of a breaker
\* window
LegacyAdvanceTime ==
    LET
        LegacyTimers ==
            {ts \in {LEGACY_DISABLED_UNTIL, cb_file.until} : ts # Infinity}
                \cup {LAST_REQUEST_TS + MIN_INTERVAL_SEC}
                \cup {lth[t].wake : t \in {x \in Threads :
                                             lth[x].pc \in {"pace_sleep", "backoff"}}}

        \* a deadline d ticks later
        ShiftDeadline(ts, d) == IF ts = Infinity THEN Infinity ELSE Sooner(ts, d)
    IN
    /\ \E target \in LegacyTimers :
        LET d == target - now IN
        /\ d > 0
        /\ LAST_REQUEST_TS' =
              IF LAST_REQUEST_TS - d < LegacyPast THEN LegacyPast
              ELSE LAST_REQUEST_TS - d
        /\ sent' = Older(sent, d)
        /\ LEGACY_DISABLED_UNTIL' = ShiftDeadline(LEGACY_DISABLED_UNTIL, d)
        /\ cb_file' = [cb_file EXCEPT !.until = Sooner(@, d)]
        /\ lth' = [t \in Threads |->
                     [lth[t] EXCEPT !.wake = Sooner(@, d),
                                    !.mem = ShiftDeadline(@, d),
                                    !.val = [@ EXCEPT !.v = ShiftDeadline(@, d)]]]
    /\ UNCHANGED <<MIN_INTERVAL_SEC, FORCE_ONLINE, RATE_LOCK, PENDING_REQUESTS,
                   lpobjs, lcalls, net>>
    /\ ServiceUnchanged
    /\ RestUnchanged

\* the breaker file as another instance, an earlier run or a torn write
\* left it
LegacyInit ==
    LET
        \* what CB_FILE can hold when the process finds it
        FileTexts == {"num", "empty", "garbage", "nan", "inf", "unreadable"}
    IN
    /\ ServiceInit
    /\ LimiterInit
    /\ RestInit
    /\ cb_file \in {NoFile}
          \cup {[exists |-> TRUE, txt |-> "num", until |-> u] :
                   u \in {0, BREAKER_SECONDS}}
          \cup {[exists |-> TRUE, txt |-> x, until |-> 0] :
                   x \in FileTexts \ {"num"}}

LegacyNext ==
    \/ \E t \in Threads, u \in Urls : CallDedup(t, u)
    \/ \E t \in Threads : DedupWait(t)
    \/ \E t \in Threads : SyncRead(t)
    \/ \E t \in Threads : SyncLoad(t)
    \/ \E t \in Threads : SyncStore(t)
    \/ \E t \in Threads : Check(t)
    \/ \E t \in Threads : Lock(t)
    \/ \E t \in Threads : PaceWake(t)
    \/ \E t \in Threads, r \in {"ok", "429", "neterror"} : LegacyResponse(t, r)
    \/ \E t \in Threads : BackoffWake(t)
    \/ \E t \in Threads : MarkFile(t)
    \/ \E t \in Threads : Publish(t)
    \/ LegacyReset
    \/ \E flag \in BOOLEAN : SetForceOnline(flag)
    \/ LegacyAdvanceTime

LegacySpec == LegacyInit /\ [][LegacyNext]_vars

(***************************************************************************)
(* The offline tile build (offline/build_offline_tiles_openmeteo.py): one  *)
(* thread, one RateLimiter made from --min-interval-s, and                 *)
(* get_json_with_retries called once per request of the build.  Intervals  *)
(* and sleeps are in milliseconds.                                         *)
(***************************************************************************)
BackendUnchanged ==
    /\ ServiceUnchanged
    /\ LimiterUnchanged
    /\ UNCHANGED <<LEGACY_DISABLED_UNTIL, cb_file, sent, net>>

OutsideOffline == BackendUnchanged /\ UNCHANGED <<kin, kout, arg, ret>>

\* line 68: the default max_interval_s of bump, which line 128 keeps
BUMP_CAP == 30000

OfflineStatuses == {"200", "429", "500", "neterror", "404"}

\* one call of get_json_with_retries(url, rl)
CallGetJson ==
    /\ job.pc \in {"idle", "done"}
    /\ job' = [IdleJob EXCEPT !.pc = "wait"]
    /\ UNCHANGED rl
    /\ OutsideOffline

\* line 113: rl.wait()
OfflineWait ==
    LET
        \* lines 77-79 of wait(): the sleep that is left
        WaitSleep(m, elapsed) == IF elapsed < m THEN m - elapsed ELSE 0

        \* time that has passed since the limiter's last stamp when wait() is called
        Elapsed == {0, 500, 100000}
    IN
    /\ job.pc = "wait"
    /\ \E e \in Elapsed :
          job' = [job EXCEPT !.pc = "get", !.waits = @ + 1,
                             !.slept = WaitSleep(rl.min_interval_s, e)]
    /\ UNCHANGED rl
    /\ OutsideOffline

\* a ladder that never runs out
RetriesLeft_Always(att, n) == TRUE

\* lines 118, 129, 137: if attempt < len(delays)
RetriesLeft(att, n) == att < n

\* lines 114-141: requests.get and what follows its outcome
OfflineResponse(r) ==
    LET
        \* line 71: min(float(max_interval_s), float(self.min_interval_s) * factor),
        \* the factor in hundredths
        Bump(m, factor100, max_interval_s) ==
            IF max_interval_s < (m * factor100) \div 100
            THEN max_interval_s
            ELSE (m * factor100) \div 100

        \* line 110: delays = [2, 5, 10, 20, 40, 80]
        OfflineDelays == <<2000, 5000, 10000, 20000, 40000, 80000>>
    IN
    /\ job.pc = "get"
    /\ rl' = IF r = "429"
             THEN [rl EXCEPT !.min_interval_s = Bump(@, 135, BUMP_CAP)]
             ELSE rl
    /\ job' =
          IF r = "200"
          THEN [job EXCEPT !.pc = "done", !.out = "json", !.status = r]
          ELSE IF r \in {"429", "500", "neterror"}
                  /\ RetriesLeft(job.attempt, Len(OfflineDelays))
          THEN [job EXCEPT !.pc = "backoff", !.status = r]
          ELSE [job EXCEPT !.pc = "done", !.out = "RuntimeError", !.status = r]
    /\ OutsideOffline

\* lines 119, 132, 138: time.sleep(delays[attempt]) is over, next attempt
OfflineBackoffWake ==
    /\ job.pc = "backoff"
    /\ job' = [job EXCEPT !.pc = "wait", !.attempt = @ + 1]
    /\ UNCHANGED rl
    /\ OutsideOffline

OfflineInit ==
    LET
        \* (lines 618, 687-707, 737) --min-interval-s is any float the operator
        \* gives; auto pacing can only lower it, to not less than 0.25 s
        ConfiguredIntervals == {250, 1150, 25000, 45000}
    IN
    /\ ServiceInit
    /\ LimiterInit
    /\ cb_file = NoFile
    /\ rl \in {[min_interval_s |-> m] : m \in ConfiguredIntervals}
    /\ job = IdleJob
    /\ kin = [i \in 1..2 |-> KeyRequest("daily", 0, 0, 2024, 1, 1)]
    /\ kout = <<>>
    /\ arg = NoCall
    /\ ret = NoCall

OfflineNext ==
    \/ CallGetJson
    \/ OfflineWait
    \/ \E r \in OfflineStatuses : OfflineResponse(r)
    \/ OfflineBackoffWake

OfflineSpec == OfflineInit /\ [][OfflineNext]_vars

(***************************************************************************)
(* The key functions of WeatherService (weather_service.py:61-79), applied *)
(* to two requests.  A coordinate is a whole number of hundredths of a     *)
(* degree; a float is its sign bit and its magnitude in tenths, so that    *)
(* -0.0 and 0.0 are two values; a formatted number is the tuple of its     *)
(* sign, its integer part and its fraction digits.                         *)
(***************************************************************************)

\* the key and the file name get_weather computes for each request
ComputeKeys ==
    LET
        \* f"{n:02d}"
        Pad2(n) == <<n \div 10, n % 10>>

        \* lines 62-64: round(v, 1); the result keeps the sign of v, also when
        \* it is zero
        Quantize(v) ==
            [neg |-> v < 0,
             tenths |-> ((IF v < 0 THEN -v ELSE v) + 5) \div 10]

        \* lines 73-79: _disk_path_daily
        DiskPathDaily(lat, lon, year, month, day) ==
            LET
                Format1f(q) ==
                    <<IF q.neg THEN "-" ELSE "", q.tenths \div 10, q.tenths % 10>>
            IN
            <<"daily_oneday_lat", Format1f(Quantize(lat)), "_lon",
              Format1f(Quantize(lon)), "_y", year, "_m", Pad2(month), "_d",
              Pad2(day), ".json">>

        \* lines 66-71: _key
        Key(lat, lon, year, month, day, kind) ==
            LET
                \* f"{q:.2f}" and f"{q:.1f}": "-" for a set sign bit, zero included
                Format2f(q) ==
                    <<IF q.neg THEN "-" ELSE "", q.tenths \div 10, (q.tenths % 10) * 10>>
            IN
            <<kind, ":", Format2f(Quantize(lat)), "_", Format2f(Quantize(lon)), "_",
              year, "_", Pad2(month), "_", Pad2(day)>>

        OutsideKeys == BackendUnchanged /\ UNCHANGED <<rl, job, arg, ret>>
    IN
    /\ kout = <<>>
    /\ kout' = [i \in 1..2 |->
                  [key |-> Key(kin[i].lat, kin[i].lon, kin[i].year,
                               kin[i].month, kin[i].day, kin[i].kind),
                   path |-> DiskPathDaily(kin[i].lat, kin[i].lon,
                                          kin[i].year, kin[i].month,
                                          kin[i].day)]]
    /\ UNCHANGED kin
    /\ OutsideKeys

KeyInit ==
    LET
        KeyRequests ==
            LET
                KeyDays == {1, 10}

                KeyMonths == {1, 11}

                KeyYears == {2023, 2024}

                KeyKinds == {"daily", "hourly"}

                Lons == {-4, 4}

                \* no coordinate lies half way between two tenths
                Coords == {-12, -4, 0, 4, 12}
            IN
            {KeyRequest(k, la, lo, y, m, d) :
                k \in KeyKinds, la \in Coords, lo \in Lons, y \in KeyYears,
                m \in KeyMonths, d \in KeyDays}
    IN
    /\ ServiceInit
    /\ LimiterInit
    /\ cb_file = NoFile
    /\ rl = [min_interval_s |-> DEFAULT_MIN_INTERVAL]
    /\ job = IdleJob
    /\ kin \in [1..2 -> KeyRequests]
    /\ kout = <<>>
    /\ arg = NoCall
    /\ ret = NoCall

KeySpec == KeyInit /\ [][ComputeKeys]_vars

(***************************************************************************)
(* Functions studied on their own.  Each of the specifications below has   *)
(* one action per function: Init draws the function's arguments and what   *)
(* its environment answers (arg), the action computes what the function    *)
(* returns or raises (ret).  Everything else is at rest.                   *)
(***************************************************************************)
OutsideCall == BackendUnchanged /\ UNCHANGED <<rl, job, kin, kout>>

QuietInit ==
    /\ ServiceInit
    /\ LimiterInit
    /\ cb_file = NoFile
    /\ rl = [min_interval_s |-> DEFAULT_MIN_INTERVAL]
    /\ job = IdleJob
    /\ kin = [i \in 1..2 |-> KeyRequest("daily", 0, 0, 2024, 1, 1)]
    /\ kout = <<>>

(***************************************************************************)
(* fetch_daily_weather_same_day (weather_openmeteo.py:350-422) followed by *)
(* compute_weather_statistics_daily (weather.py:50-111), for a window of   *)
(* three years.  What WeatherService.get_weather does for a year that is   *)
(* not cached (a payload, or one of the exceptions of the worker) is an    *)
(* input, and so is what the Meteostat function does.  A payload either    *)
(* has the requested day in daily.time ("row") or an empty daily.time      *)
(* ("norow").                                                              *)
(***************************************************************************)
FetchYears == {2022, 2023, 2024}

Payloads == {"row", "norow"}

FetchOutcomes == Payloads \cup {Err429, ErrBreaker, ErrRequestFailed}

\* line 380: date(y, month, day), for 29 February or for a day every year
\* has
FetchDateValid(leapday, y) == ~leapday \/ IsLeap(y)

\* a reading of the payload that finds no day in it
HasTimes_Never(p) == FALSE

\* lines 370, 395: if times
HasTimes(p) == p = "row"

\* lines 404-422: the frame that is returned and its provider
SameDayFrame(a) ==
    LET
        PrimaryRows ==
            LET
                \* lines 360-403: the years that add a row, and where the row came from
                RowSource(aa, y) ==
                    IF aa.cached[y] # "none"
                    THEN (IF HasTimes(aa.cached[y]) THEN "cache" ELSE "none")
                    ELSE IF ~FetchDateValid(aa.leapday, y) THEN "none"
                    ELSE IF aa.outcome[y] \notin Payloads THEN "none"
                    ELSE IF HasTimes(aa.outcome[y]) THEN "fetch" ELSE "none"
            IN
                          {y \in FetchYears : RowSource(a, y) # "none"}
    IN
    LET rows == PrimaryRows IN
    IF NeedsFallback(Cardinality(rows))
    THEN [fallback |-> TRUE,
          rows |-> IF a.meteostat = "rows" THEN FetchYears ELSE {},
          provider |-> IF a.meteostat = "rows" THEN "meteostat" ELSE "none"]
    ELSE [fallback |-> FALSE, rows |-> rows, provider |-> "openmeteo"]

\* weather.py:54-55, 71-74: ValueError for an empty frame, else the number
\* of rows of the requested day (every row of the frame is of that day)
StatisticsDaily(df) ==
    IF df.rows = {}
    THEN [error |-> "ValueError: No daily data available", match_days |-> 0]
    ELSE [error |-> NoError, match_days |-> Cardinality(df.rows)]

CallSameDayStatistics ==
    /\ arg.fn = "same_day"
    /\ ret = NoCall
    /\ ret' = [fn |-> "same_day", df |-> SameDayFrame(arg),
               stats |-> StatisticsDaily(SameDayFrame(arg))]
    /\ UNCHANGED arg
    /\ OutsideCall

SameDayInit ==
    LET
        SameDayArgs ==
            {a \in [fn : {"same_day"}, leapday : BOOLEAN,
                    cached : [FetchYears -> Payloads \cup {"none"}],
                    outcome : [FetchYears -> FetchOutcomes],
                    meteostat : {"rows", "empty", "raise"}] :
                \A y \in FetchYears :
                    a.cached[y] # "none" => FetchDateValid(a.leapday, y)}
    IN
    /\ QuietInit
    /\ arg \in SameDayArgs
    /\ ret = NoCall

SameDaySpec == SameDayInit /\ [][CallSameDayStatistics]_vars

(***************************************************************************)
(* app.py: where the statistics of a route point come from.  One call of   *)
(* api_map_stream.event_stream or of api_map is followed for one point     *)
(* (per-point mode) or for the representative point of one tour day (tour  *)
(* planning).  arg holds the request and what the stats cache, the offline *)
(* store and the provider answer; ret is what the caller receives.         *)
(***************************************************************************)

\* the keyword parameters that fetch_daily_weather_same_day,
\* fetch_daily_weather and fetch_daily_weather_window declare
FetchKeywords == {"years_window"}

\* a call of a fetch function with keyword arguments kw: Python raises
\* TypeError for a keyword the function does not declare, before the
\* function runs
FetchCall(kw, outcome) ==
    IF kw \subseteq FetchKeywords THEN outcome ELSE "raise"

WantMultiYear(a) ==
    LET
        \* years_start_req, years_end_req of event_stream (today is LastYear + 1)
        YearsEndReq ==
            IF a.hist_start # 0
            THEN IF LastYear < a.hist_start + a.years_window - 1
                 THEN LastYear ELSE a.hist_start + a.years_window - 1
            ELSE LastYear

        YearsStartReq ==
            IF a.hist_start # 0 THEN a.hist_start
            ELSE YearsEndReq - a.years_window + 1
    IN
                    YearsEndReq - YearsStartReq + 1 >= 2

\* strict mode is in force: OFFLINE_STRICT is set and a store was opened
StrictInForce(a) == a.strict /\ a.store

\* results: a station event with a feature, a station event with an error,
\* an exception that leaves the generator (the stream ends there), for
\* api_map a point without any feature, or an HTTP answer
Feature(src, span, fetched) ==
    [event |-> "feature", source |-> src, span |-> span,
     fetched |-> fetched, error |-> NoError]

Failure(ev, err, fetched) ==
    [event |-> ev, source |-> "none", span |-> "none",
     fetched |-> fetched, error |-> err]

\* compute_weather_statistics(df, mm, dd) on the frame of the fetch
ComputeFromFrame(df, ev, fetched) ==
    IF df = "rows" THEN Feature("api", "multi", fetched)
    ELSE Failure(ev, "ValueError: No daily data available", fetched)

CallEventStream ==
    LET
        \* _years_span_from_stats: _years_end - _years_start + 1 (or _match_days)
        YearsSpanFromStats(st) ==
            IF st = "multi" THEN 2 ELSE IF st = "single" THEN 1 ELSE 0

        \* event_stream, per-point mode: one pass of the station loop
        PointStats(a) ==
            LET offline_span == YearsSpanFromStats(a.offline)
                use_offline == /\ a.offline # "none"
                               /\ (~WantMultiYear(a) \/ offline_span >= 2)
                offline_fallback_stats == IF a.offline # "none" THEN a.offline ELSE "none"
                df == FetchCall({"years_window", "start_year", "end_year"}, a.fetch)
            IN  IF a.cache # "none" THEN Feature("disk_cache", a.cache, FALSE)
                ELSE IF use_offline THEN Feature("offline_tile", a.offline, FALSE)
                ELSE IF StrictInForce(a)
                THEN IF offline_fallback_stats # "none"
                     THEN Feature("offline_tile", a.offline, FALSE)
                     ELSE Failure("point_error", "Offline strict mode: no offline data for this point/day", FALSE)
                ELSE IF a.offline_only
                THEN IF offline_fallback_stats # "none"
                     THEN Feature("offline_tile", a.offline, FALSE)
                     \* _dummy_stats is a local name bound in the tour-planning
                     \* branch only: UnboundLocalError, caught by the loop
                     ELSE Failure("point_error", "weather/stats error", FALSE)
                ELSE IF df = "raise"
                THEN Failure("point_error", "weather/stats error", TRUE)
                ELSE IF df = "short"
                THEN IF offline_fallback_stats # "none"
                     THEN Feature("offline_tile", a.offline, TRUE)
                     ELSE Feature("dummy", "none", TRUE)
                ELSE Feature("api", "multi", TRUE)

        \* event_stream, tour planning: the statistics of the representative point
        \* of a day, which every point of that day then carries
        RepresentativeStats(a) ==
            LET rep_cache_hit == a.cache # "none"
                cached_span == IF rep_cache_hit THEN YearsSpanFromStats(a.cache) ELSE 0
                offline_span == YearsSpanFromStats(a.offline)
                need_multi == a.years_window >= 2
                has_multi_cached == cached_span >= 2
                has_multi_offline == offline_span >= 2
                \* source of stats after the offline probe
                stats == IF ~rep_cache_hit /\ a.offline # "none" /\ ~need_multi
                         THEN "offline_tile"
                         ELSE IF rep_cache_hit /\ (has_multi_cached \/ ~need_multi)
                         THEN "disk_cache"
                         ELSE IF a.offline # "none" /\ has_multi_offline
                         THEN "offline_tile"
                         ELSE IF rep_cache_hit THEN "disk_cache" ELSE "none"
                must_skip_online == a.offline_only \/ StrictInForce(a)
                online == /\ (~rep_cache_hit \/ (need_multi /\ ~has_multi_cached))
                          /\ stats = "none"
                          /\ ~must_skip_online
                df == IF online
                      THEN FetchCall({"years_window", "start_year", "end_year"}, a.fetch)
                      ELSE "none"
                span == IF stats = "disk_cache" THEN a.cache ELSE a.offline
            IN  IF online /\ StrictInForce(a)
                THEN Failure("stream_error", "Offline strict mode: no offline data for representative point/day.", FALSE)
                ELSE IF df = "raise"
                THEN Failure("abort", "TypeError", TRUE)
                ELSE IF stats = "none" /\ df \in {"none", "short"}
                THEN IF a.offline # "none"
                     THEN Feature("offline_tile", a.offline, online)
                     ELSE Feature("dummy", "none", online)
                ELSE IF rep_cache_hit /\ (has_multi_cached \/ ~need_multi)
                THEN Feature(stats, span, online)
                ELSE IF stats # "none" /\ a.offline # "none" /\ ~need_multi
                THEN Feature(stats, span, online)
                ELSE ComputeFromFrame(df, "abort", online)

        EventStream(a) ==
            IF a.tour_planning THEN RepresentativeStats(a) ELSE PointStats(a)
    IN
    /\ arg.fn = "event_stream"
    /\ ret = NoCall
    /\ ret' = [fn |-> "event_stream", out |-> EventStream(arg)]
    /\ UNCHANGED arg
    /\ OutsideCall

CallApiMap ==
    LET
        \* api_map: the representative point (tour planning) or one point
        ApiMap(a) ==
            LET df == FetchCall({}, a.fetch)
            IN  IF a.cache # "none" THEN Feature("disk_cache", a.cache, FALSE)
                ELSE IF a.offline # "none" THEN Feature("offline_tile", a.offline, FALSE)
                ELSE IF StrictInForce(a)
                THEN IF a.tour_planning
                     THEN Failure("http_503", "Offline strict mode: no offline data for representative point/day.", FALSE)
                     ELSE Failure("skipped", NoError, FALSE)
                ELSE IF df = "raise"
                THEN IF a.tour_planning
                     THEN Failure("abort", "Exception", TRUE)
                     ELSE Failure("skipped", NoError, TRUE)
                ELSE IF df = "short"
                THEN IF a.tour_planning
                     THEN Failure("http_200_empty", "Weather temporarily unavailable; try again shortly.", TRUE)
                     ELSE Failure("skipped", NoError, TRUE)
                ELSE Feature("api", "multi", TRUE)

        \* progress_done (lines 294-299)
        ProgressDone(st) == [st EXCEPT !.completed = st.total, !.done = TRUE]

        \* PROGRESS[job_id] when the handler has returned: progress_init at
        \* line 492 when the request has a job_id; progress_done at line 752,
        \* which the returns of lines 536 and 554 and an exception that
        \* leaves the handler do not reach
        Progress(job_id, out) ==
            LET st == [exists |-> job_id, total |-> 2, completed |-> 0,
                       done |-> FALSE]
            IN  IF job_id /\ out.event \notin {"http_503", "http_200_empty", "abort"}
                THEN ProgressDone(st)
                ELSE st
    IN
    /\ arg.fn = "api_map"
    /\ ret = NoCall
    /\ \E job_id \in BOOLEAN :
          ret' = [fn |-> "api_map", out |-> ApiMap(arg),
                  progress |-> Progress(job_id, ApiMap(arg))]
    /\ UNCHANGED arg
    /\ OutsideCall

\* a span of years that ends a year early
YearsEnd_Exclusive(years_start, num_years) == years_start + num_years - 2

\* app.py 1107: years_end = years_start + int(num_years) - 1
\* (1104 solves the same equation for years_start)
YearsEnd(years_start, num_years) == years_start + num_years - 1

(***************************************************************************)
(* api_map_stream.event_stream up to the route event (app.py 849-857,      *)
(* 1091-1124).  The query parameters are texts, kept as sequences of       *)
(* characters: arg holds the integers the client means, str() writes them  *)
(* into the URL and int() reads them back.                                 *)
(***************************************************************************)
CallRouteEvent ==
    LET
        Digits == <<"0", "1", "2", "3", "4", "5", "6", "7", "8", "9">>

        \* str(n) of an integer
        RECURSIVE StrNat(_)
        StrNat(n) == IF n < 10 THEN <<Digits[n + 1]>>
                     ELSE Append(StrNat(n \div 10), Digits[(n % 10) + 1])
        Str(n) == IF n < 0 THEN <<"-">> \o StrNat(-n) ELSE StrNat(n)

        \* request.args.get: the text of a parameter, None without it
        Text(p) ==
            IF p.kind = "absent" THEN [given |-> FALSE, text |-> <<>>]
            ELSE IF p.kind = "empty" THEN [given |-> TRUE, text |-> <<>>]
            ELSE IF p.kind = "junk" THEN [given |-> TRUE, text |-> Str(p.n) \o <<"x">>]
            ELSE [given |-> TRUE, text |-> Str(p.n)]

        \* bool(text) of a parameter: None and '' are false
        Truthy(t) == t.given /\ t.text # <<>>

        IsDigit(c) == \E d \in 1..10 : Digits[d] = c
        DigitOf(c) == (CHOOSE d \in 1..10 : Digits[d] = c) - 1
        RECURSIVE NatOf(_)
        NatOf(s) == IF s = <<>> THEN 0
                    ELSE 10 * NatOf(SubSeq(s, 1, Len(s) - 1)) + DigitOf(s[Len(s)])

        \* int(text): an optional sign and digits, ValueError otherwise
        PyInt(s) ==
            LET body == IF s # <<>> /\ s[1] \in {"-", "+"} THEN Tail(s) ELSE s
            IN  IF body = <<>> \/ \E i \in 1..Len(body) : ~IsDigit(body[i])
                THEN [ok |-> FALSE, n |-> 0]
                ELSE [ok |-> TRUE,
                      n |-> IF s[1] = "-" THEN -NatOf(body) ELSE NatOf(body)]

        NoYear == [is_int |-> FALSE, n |-> 0]
        Year(n) == [is_int |-> TRUE, n |-> n]

        \* lines 1092-1110
        YearsSpan(a) ==
            LET hist_years_param == Text(a.hist_years)
                hist_start_param == Text(a.hist_start)
                parsed_years == PyInt(hist_years_param.text)
                parsed_start == PyInt(hist_start_param.text)
                num_years == IF Truthy(hist_years_param) THEN parsed_years.n
                             ELSE a.session_num_years
                years_end_recent == a.today_year - 1
            IN  IF Truthy(hist_years_param) /\ ~parsed_years.ok
                THEN [years_start |-> NoYear, years_end |-> NoYear]
                ELSE IF Truthy(hist_start_param) /\ parsed_start.ok
                THEN [years_start |-> Year(parsed_start.n),
                      years_end |-> Year(YearsEnd(parsed_start.n, num_years))]
                ELSE [years_start |-> Year(years_end_recent - num_years + 1),
                      years_end |-> Year(years_end_recent)]
    IN
    /\ arg.fn = "route_event"
    /\ ret = NoCall
    /\ ret' = [fn |-> "route_event",
               \* lines 1121-1124: a superseded stream ends before the event
               emitted |-> arg.dry_run \/ ~arg.superseded,
               route |-> YearsSpan(arg)]
    /\ UNCHANGED arg
    /\ OutsideCall

StreamInit ==
    LET
        \* what fetch_daily_weather_same_day / fetch_daily_weather answers once it
        \* runs: enough rows, fewer than min_rows, or an exception
        FetchReturns == {"rows", "short", "raise"}

        StreamArgs ==
            LET
                \* hist_start of the request; 0 stands for a request without it
                HistStarts == {0, FirstYear, LastYear}

                \* year span of a statistics entry: absent, one year, two or more years
                StatsSpans == {"none", "single", "multi"}
            IN
            {a \in [fn : {"event_stream", "api_map"},
                    tour_planning : BOOLEAN,
                    cache : StatsSpans,
                    offline : StatsSpans,
                    store : BOOLEAN,
                    strict : BOOLEAN,
                    offline_only : BOOLEAN,
                    years_window : {1, 2},
                    hist_start : HistStarts,
                    fetch : FetchReturns] :
                \* _get_offline_stats answers None without a store
                a.offline # "none" => a.store}

        \* a request's hist_start and hist_years: absent, empty, an integer
        \* or not a number; the session's num_years; this year
        RouteArgs ==
            LET Param(ns) == {p \in [kind : {"absent", "empty", "int", "junk"}, n : ns] :
                                p.kind \in {"absent", "empty"} => p.n = 0}
            IN  [fn : {"route_event"},
                 hist_start : Param({-1, 0, 2015, 2016}),
                 hist_years : Param({-1, 0, 1, 7, 10}),
                 session_num_years : {5, 10},
                 today_year : {2026},
                 dry_run : BOOLEAN,
                 superseded : BOOLEAN]
    IN
    /\ QuietInit
    /\ arg \in StreamArgs \cup RouteArgs
    /\ ret = NoCall

StreamSpec ==
    StreamInit /\ [][CallEventStream \/ CallApiMap \/ CallRouteEvent]_vars

(***************************************************************************)
(* offline_weather_store.py: OfflineWeatherStore.default_from_env picks    *)
(* the store file; _load_config reads its meta table.                      *)
(***************************************************************************)

\* the candidates of the auto-detection, in the order the loop visits
\* them: offline_weather_<year>.sqlite by year, latest first, then
\* offline_weather.sqlite
CandidateNames ==
    <<"offline_weather_2024.sqlite", "offline_weather_2023.sqlite",
      "offline_weather.sqlite">>

StoreNames == {CandidateNames[i] : i \in DOMAIN CandidateNames}

NoConfig == [valid |-> FALSE, years |-> <<>>]

\* _load_config(db_path): None unless the meta table names the provider,
\* says provider_only and holds a bbox (sqlite3.connect on a path that does
\* not exist opens an empty database: no meta table)
LoadConfig_AnyProviderOnly(f) ==
    IF ~f.exists THEN NoConfig
    ELSE IF f.provider # "open-meteo" THEN NoConfig
    ELSE IF ~f.bbox THEN NoConfig
    ELSE [valid |-> TRUE, years |-> f.years]

LoadConfig(f) ==
    LET
        \* str.lower on the values of provider_only
        Lower(s) == IF s = "True" THEN "true" ELSE s
    IN
    IF ~f.exists THEN NoConfig
    ELSE IF f.provider # "open-meteo" THEN NoConfig
    ELSE IF Lower(f.provider_only) # "true" THEN NoConfig
    ELSE IF ~f.bbox THEN NoConfig
    ELSE [valid |-> TRUE, years |-> f.years]

\* Python's tuple comparison s > t
TupleGreater(s, t) ==
    \E i \in 1..Len(s) :
        /\ s[i] > t[i]
        /\ \A j \in 1..(i - 1) : s[j] = t[j]

\* `best is None or score > best[:4]`
Replaces_OnTie(s, t) == TupleGreater(s, t) \/ s = t

Replaces(s, t) == TupleGreater(s, t)

CallDefaultFromEnv ==
    LET
        \* default_from_env(): the file of the store it returns, "none" for None
        DefaultFromEnv(a) ==
            LET
                \* the loop over the candidates from position i on; best is the name kept
                \* so far ("none" for None)
                RECURSIVE BestFrom(_, _, _)
                BestFrom(files, i, best) ==
                    LET
                        \* score = (tile_count, span_years, end_year, mtime)
                        Score(f) ==
                            LET cfg == LoadConfig(f)
                                span == IF cfg.years = <<>> THEN 0
                                        ELSE IF cfg.years[2] - cfg.years[1] + 1 < 0 THEN 0
                                        ELSE cfg.years[2] - cfg.years[1] + 1
                                end_year == IF cfg.years = <<>> THEN 0 ELSE cfg.years[2]
                            IN  <<f.tiles, span, end_year, f.mtime>>
                    IN
                    IF i > Len(CandidateNames) THEN best
                    ELSE LET n == CandidateNames[i]
                             f == files[n]
                             take == /\ f.exists
                                     /\ LoadConfig(f).valid
                                     /\ (best = "none" \/ Replaces(Score(f), Score(files[best])))
                         IN  BestFrom(files, i + 1, IF take THEN n ELSE best)
            IN
            IF /\ a.env # "unset"
               /\ a.files[a.env].exists
               /\ LoadConfig(a.files[a.env]).valid
            THEN a.env
            ELSE BestFrom(a.files, 1, "none")
    IN
    /\ arg.fn = "default_from_env"
    /\ ret = NoCall
    /\ ret' = [fn |-> "default_from_env",
               cfg |-> [n \in StoreNames |-> LoadConfig(arg.files[n])],
               store |-> DefaultFromEnv(arg)]
    /\ UNCHANGED arg
    /\ OutsideCall

StoreInit ==
    LET
        StoreArgs ==
            LET
                \* a store file: whether the path exists, the values of its meta table
                \* ("missing" for an absent key or table), the number of rows of its tiles
                \* table and its modification time.  Files that differ from what the
                \* builder writes come with the best score, so that a wrongly accepted one
                \* would be selected.
                StoreFiles ==
                    LET
                        \* years of the meta table: <<start, end>>, or <<>> when the key is absent
                        MetaYears == {<<>>, <<2023, 2023>>, <<2024, 2024>>, <<2023, 2024>>}
                    IN
                    {f \in [exists : BOOLEAN,
                            provider : {"open-meteo", "meteostat", "missing"},
                            provider_only : {"true", "True", "false", "missing"},
                            bbox : BOOLEAN,
                            tiles : {1, 2},
                            years : MetaYears,
                            mtime : {1, 2}] :
                        LET deviations == (IF f.exists THEN 0 ELSE 1)
                                          + (IF f.provider = "open-meteo" THEN 0 ELSE 1)
                                          + (IF f.provider_only = "true" THEN 0 ELSE 1)
                                          + (IF f.bbox THEN 0 ELSE 1)
                        IN  \/ deviations = 0
                            \/ /\ deviations = 1
                               /\ f.tiles = 2 /\ f.years = <<2023, 2024>> /\ f.mtime = 2}
            IN
            [fn : {"default_from_env"},
             env : {"unset"} \cup StoreNames,
             files : [StoreNames -> StoreFiles]]
    IN
    /\ QuietInit
    /\ arg \in StoreArgs
    /\ ret = NoCall

StoreSpec == StoreInit /\ [][CallDefaultFromEnv]_vars

(***************************************************************************)
(* The tile grid: tile_grid_approx_50km of the builder makes the tiles,    *)
(* OfflineWeatherStore._tile_id_for_point finds the tile of a point.       *)
(* Coordinates are whole numbers of ticks of 0.005 degree, so that the     *)
(* centre of a tile, half a step from its edge, is a whole number when     *)
(* the step is even.                                                       *)
(***************************************************************************)

\* step_lat = tile_km / 111.32 degrees, in ticks and even
StepLat(km) == 2 * ((km * 10000) \div 11132)

\* step_lon = tile_km / (111.32 * c), c = max(0.05, cos(radians(lat_c))),
\* in ticks and even; the cosine of d degrees is taken as
\* (32400 - 4 d^2) / (32400 + d^2), d the whole degrees of lat_c
StepLon(km, lat_c) ==
    LET d == lat_c \div 200
        num == 32400 - 4 * d * d
        den == 32400 + d * d
    IN  IF 20 * num < den
        THEN 20 * StepLat(km)
        ELSE 2 * (((StepLat(km) \div 2) * den) \div num)

\* f"r{row}_c{col}"
TileId(row, col) == "r" \o ToString(row) \o "_c" \o ToString(col)

\* _tile_id_for_point(lat, lon); "none" for None.  The tolerance 1e-9 of
\* the two centre tests is far below a tick.
TileIdForPoint_Nearest(b, km, lat, lon) ==
    LET step_lat == StepLat(km)
        row == (lat - b[1] + step_lat \div 2) \div step_lat
        lat_c == b[1] + ((2 * row + 1) * step_lat) \div 2
        step_lon == StepLon(km, lat_c)
        col == (lon - b[3] + step_lon \div 2) \div step_lon
        lon_c == b[3] + ((2 * col + 1) * step_lon) \div 2
    IN  IF ~(b[1] <= lat /\ lat <= b[2] /\ b[3] <= lon /\ lon <= b[4])
        THEN "none"
        ELSE IF row < 0 \/ lat_c > b[2] THEN "none"
        ELSE IF col < 0 \/ lon_c > b[4] THEN "none"
        ELSE TileId(row, col)

TileIdForPoint(b, km, lat, lon) ==
    LET lat_min == b[1]
        lat_max == b[2]
        lon_min == b[3]
        lon_max == b[4]
        step_lat == StepLat(km)
        row == (lat - lat_min) \div step_lat
        lat_c == lat_min + ((2 * row + 1) * step_lat) \div 2
        step_lon == StepLon(km, lat_c)
        col == (lon - lon_min) \div step_lon
        lon_c == lon_min + ((2 * col + 1) * step_lon) \div 2
    IN  IF ~(lat_min <= lat /\ lat <= lat_max /\ lon_min <= lon /\ lon <= lon_max)
        THEN "none"
        ELSE IF row < 0 THEN "none"
        ELSE IF lat_c > lat_max THEN "none"
        ELSE IF col < 0 THEN "none"
        ELSE IF lon_c > lon_max THEN "none"
        ELSE TileId(row, col)

\* the build: the tiles of the bbox
CallTileGrid ==
    LET
        \* int(math.ceil(a / b)) for a > 0, b > 0
        CeilDiv(a, b) == (a + b - 1) \div b

        \* tile_grid_approx_50km(lat_min, lat_max, lon_min, lon_max, tile_km): the
        \* loops break at the first centre beyond the bbox, and the centres grow
        \* with row and col
        TileGrid(b, km) ==
            LET
                \* clamp_lat
                ClampLat(lat) ==
                    IF lat > 18000 THEN 18000 ELSE IF lat < -18000 THEN -18000 ELSE lat
            IN
            LET lat_min == b[1]
                lat_max == b[2]
                lon_min == b[3]
                lon_max == b[4]
                step_lat == StepLat(km)
                n_rows == CeilDiv(lat_max - lat_min, step_lat)
                lat_c(row) == lat_min + ((2 * row + 1) * step_lat) \div 2
                step_lon(row) == StepLon(km, lat_c(row))
                n_cols(row) == CeilDiv(lon_max - lon_min, step_lon(row))
                lon_c(row, col) == lon_min + ((2 * col + 1) * step_lon(row)) \div 2
            IN  UNION {{[tile_id |-> TileId(row, col), row |-> row, col |-> col,
                         lat |-> ClampLat(lat_c(row)), lon |-> lon_c(row, col)] :
                           col \in {k \in 0..(n_cols(row) - 1) :
                                       lon_c(row, k) <= lon_max}} :
                        row \in {r \in 0..(n_rows - 1) : lat_c(r) <= lat_max}}
    IN
    /\ arg.fn = "tile"
    /\ ret = NoCall
    /\ ret' = [fn |-> "tile_grid", tiles |-> TileGrid(arg.bbox, arg.tile_km)]
    /\ UNCHANGED arg
    /\ OutsideCall

\* the store, reading what the build wrote: the tile of the centre of one
\* of the tiles, or of the probe point
CallTileIdForPoint ==
    /\ arg.fn = "tile"
    /\ ret.fn = "tile_grid"
    /\ \E p \in {[of |-> t.tile_id, lat |-> t.lat, lon |-> t.lon] : t \in ret.tiles}
              \cup {[of |-> "probe", lat |-> arg.bbox[1] + arg.probe[1],
                     lon |-> arg.bbox[3] + arg.probe[2]]} :
          ret' = [fn |-> "tile_id", tiles |-> ret.tiles, point |-> p,
                  id |-> TileIdForPoint(arg.bbox, arg.tile_km, p.lat, p.lon)]
    /\ UNCHANGED arg
    /\ OutsideCall

TileInit ==
    LET
        \* points to look up that are not tile centres, as offsets from
        \* (lat_min, lon_min): outside the bbox on either side, on its corners,
        \* inside it
        ProbeOffsets == {-1, 0, 57, 199, 270, 401}

        TileArgs ==
            LET
                TileKms == {50, 30}

                \* (lat_min, lat_max, lon_min, lon_max) with lat_max > lat_min and
                \* lon_max > lon_min: 45 N or 2 S, 1 W or 10 E, 1 to 2 degrees wide
                BBoxes ==
                    {<<la, la + h, lo, lo + w>> :
                        la \in {9000, -400}, h \in {200, 270}, lo \in {-200, 2000},
                        w \in {250, 400}}
            IN
            [fn : {"tile"}, bbox : BBoxes, tile_km : TileKms,
             probe : ProbeOffsets \X ProbeOffsets]
    IN
    /\ QuietInit
    /\ arg \in TileArgs
    /\ ret = NoCall

TileSpec == TileInit /\ [][CallTileGrid \/ CallTileIdForPoint]_vars

(***************************************************************************)
(* What a provider adapter hands to its caller when it has no data:        *)
(* fetch_hourly_weather_same_day and fetch_daily_weather_same_day of       *)
(* weather_openmeteo.py, _fetch_daily_range_meteostat of                   *)
(* weather_meteostat.py.  An adapter is called twice, on two inputs.       *)
(***************************************************************************)

\* a result: the exception type raised ("none" when the call returns) and
\* the number of rows of the frame returned
Returned(n) == [raised |-> "none", rows |-> n]

Raised(type) == [raised |-> type, rows |-> 0]

\* fetch_hourly_weather_same_day that tells an unreachable provider apart
FetchHourly_Typed(i) ==
    LET rows == IF i.hourly_cache = "rows" THEN FetchYears
                ELSE IF i.hourly_cache = "empty" THEN {}
                ELSE {y \in FetchYears : i.outcome[y] = "row"}
    IN  IF rows # {} THEN Returned(Cardinality(rows))
        ELSE IF /\ i.hourly_cache = "none"
                /\ \A y \in FetchYears : i.outcome[y] \notin Payloads
        THEN Raised("TemporaryAPIUnavailable")
        ELSE Raised("Exception")

\* fetch_hourly_weather_same_day: the exception of a year is logged and
\* the year skipped; no row at all raises Exception('Open-Meteo returned
\* zero rows for hourly single-day mode')
FetchHourly(i) ==
    LET rows == IF i.hourly_cache = "rows" THEN FetchYears
                ELSE IF i.hourly_cache = "empty" THEN {}
                ELSE {y \in FetchYears : i.outcome[y] = "row"}
    IN  IF rows # {} THEN Returned(Cardinality(rows))
        ELSE Raised("Exception")

\* _fetch_daily_range_meteostat
FetchRangeMeteostat(i) ==
    IF ~i.import THEN Raised("RuntimeError")
    ELSE IF i.range_cache = "rows" THEN Returned(1)
    ELSE IF i.nearby # "stations" THEN Returned(0)
    ELSE IF i.station # "rows" THEN Returned(0)
    ELSE Returned(1)

\* the provider answered every request and had no row of the day
ReachableNoRows(name, i) ==
    IF name = "meteostat_range"
    THEN /\ i.import /\ i.range_cache = "none"
         /\ \/ i.nearby = "no_stations"
            \/ i.nearby = "stations" /\ i.station = "empty"
    ELSE /\ i.hourly_cache = "none"
         /\ \A y \in FetchYears : i.outcome[y] = "norow"
         /\ i.meteostat = "empty"

\* the provider answered no request: network failure, 429, breaker
Unreachable(name, i) ==
    IF name = "meteostat_range"
    THEN /\ i.import /\ i.range_cache = "none"
         /\ \/ i.nearby = "raise"
            \/ i.nearby = "stations" /\ i.station = "raise"
    ELSE /\ i.hourly_cache = "none"
         /\ \A y \in FetchYears : i.outcome[y] \notin Payloads
         /\ i.meteostat \in {"empty", "raise"}

\* one call of the adapter, on the next of the inputs
CallAdapter ==
    LET
        \* fetch_daily_weather_same_day, nothing cached
        FetchDaily(i) ==
            Returned(Cardinality(SameDayFrame(
                [fn |-> "same_day", leapday |-> FALSE,
                 cached |-> [y \in FetchYears |-> "none"],
                 outcome |-> i.outcome, meteostat |-> i.meteostat]).rows))

        Adapter(name, i) ==
            IF name = "hourly" THEN FetchHourly(i)
            ELSE IF name = "daily" THEN FetchDaily(i)
            ELSE FetchRangeMeteostat(i)
    IN
    /\ arg.fn = "adapter"
    /\ \/ /\ ret = NoCall
          /\ ret' = [fn |-> "adapter",
                     results |-> <<Adapter(arg.adapter, arg.inputs[1])>>]
       \/ /\ ret.fn = "adapter"
          /\ Len(ret.results) = 1
          /\ ret' = [ret EXCEPT !.results =
                        Append(@, Adapter(arg.adapter, arg.inputs[2]))]
    /\ UNCHANGED arg
    /\ OutsideCall

\* fetch_hourly_weather_same_day, twice for one point and day: during an
\* outage, then after it.  The day file of the cache is absent before the
\* first call.  A call that finds the file asks get_weather for no year; a
\* call that does not asks for every year, skips the years that raise, and
\* writes the rows it has, whatever they are (_save_cache_hourly_oneday
\* swallows a failed write).
CallFetchHourlySameDay ==
    LET
        Run(file, outcome, save_ok) ==
            LET rows == IF file.exists THEN file.rows
                        ELSE {y \in FetchYears : outcome[y] = "row"}
            IN  [asked |-> IF file.exists THEN {} ELSE FetchYears,
                 file |-> IF file.exists THEN file
                          ELSE IF save_ok THEN [exists |-> TRUE, rows |-> rows]
                          ELSE file,
                 result |-> IF rows = {} THEN Raised("Exception")
                            ELSE Returned(Cardinality(rows))]
    IN
    /\ arg.fn = "hourly_same_day"
    /\ \/ /\ ret = NoCall
          /\ ret' = [fn |-> "hourly_same_day",
                     calls |-> <<Run([exists |-> FALSE, rows |-> {}],
                                     arg.outage, arg.save_ok)>>]
       \/ /\ ret.fn = "hourly_same_day"
          /\ Len(ret.calls) = 1
          /\ ret' = [ret EXCEPT !.calls =
                        Append(@, Run(ret.calls[1].file, arg.after, TRUE))]
    /\ UNCHANGED arg
    /\ OutsideCall

AdapterInit ==
    LET
        \* inputs of the Meteostat adapter: the package imports, the range file of
        \* the cache, stations.nearby, daily(station).fetch
        MeteostatInputs ==
            [import : BOOLEAN,
             range_cache : {"none", "rows"},
             nearby : {"stations", "no_stations", "raise"},
             station : {"rows", "empty", "raise"}]

        AdapterArgs ==
            LET
                \* inputs of the two Open-Meteo adapters: the hourly day file of the cache
                \* ("none", or the rows saved by an earlier call), the answers for the
                \* years, the answer of the Meteostat fallback
                OpenMeteoInputs ==
                    LET
                        \* answers of get_weather for the years of a window
                        YearOutcomes == [FetchYears -> FetchOutcomes]
                    IN
                    {i \in [hourly_cache : {"none", "rows", "empty"},
                            outcome : YearOutcomes,
                            meteostat : {"rows", "empty", "raise"}] :
                        \* the last two years answer alike
                        i.outcome[2023] = i.outcome[2024]}
            IN
            [fn : {"adapter"}, adapter : {"hourly", "daily"},
             inputs : OpenMeteoInputs \X OpenMeteoInputs]
            \cup
            [fn : {"adapter"}, adapter : {"meteostat_range"},
             inputs : MeteostatInputs \X MeteostatInputs]

        \* the answers of get_weather during the outage and after it, and whether
        \* the first call can write the day file
        HourlyArgs ==
            [fn : {"hourly_same_day"},
             outage : [FetchYears -> FetchOutcomes],
             after : [FetchYears -> Payloads],
             save_ok : BOOLEAN]
    IN
    /\ QuietInit
    /\ arg \in AdapterArgs \cup HourlyArgs
    /\ ret = NoCall

AdapterSpec == AdapterInit /\ [][CallAdapter \/ CallFetchHourlySameDay]_vars

(***************************************************************************)
(* weather.py: compute_daytime_temperature_statistics.  The hourly frame   *)
(* has a slot per (date, hour); a slot is absent from the frame, holds a   *)
(* value that to_numeric turns into NaN, or holds a temperature.  Results  *)
(* are exact: a mean is kept as 12 times its value, a percentile as 4      *)
(* times its value (48 times for a percentile of means).  temp_std, a      *)
(* square root that no other field depends on, is left out.                *)
(***************************************************************************)

\* the slots of the frame: three dates of the target day, hour 9 being
\* outside the daytime hours
HourlySlots ==
    {<<2022, 9>>, <<2022, 10>>, <<2022, 12>>, <<2022, 14>>,
     <<2023, 10>>, <<2023, 12>>,
     <<2024, 10>>, <<2024, 16>>}

\* `if len(sel) >= 2`
EnoughSamples_One(n) == n >= 1

EnoughSamples(n) == n >= 2

\* the values of a set of slots in ascending order
RECURSIVE SortedValues(_, _)
SortedValues(f, slots) ==
    IF slots = {} THEN <<>>
    ELSE LET s == CHOOSE x \in slots : \A y \in slots : f[x] <= f[y]
         IN  <<f[s]>> \o SortedValues(f, slots \ {s})

RECURSIVE SumValues(_, _)
SumValues(f, slots) ==
    IF slots = {} THEN 0
    ELSE LET s == CHOOSE x \in slots : TRUE
         IN  f[s] + SumValues(f, slots \ {s})

\* np.nanpercentile(vals, 25 q) with linear interpolation, times 4
Percentile4(q, vals) ==
    LET pos == q * (Len(vals) - 1)
        lo == pos \div 4 + 1
        fr == pos % 4
    IN  IF fr = 0 THEN 4 * vals[lo]
        ELSE 4 * vals[lo] + fr * (vals[lo + 1] - vals[lo])

CallDaytimeStatistics ==
    LET
        \* compute_daytime_temperature_statistics(df_hourly, month, day)
        DaytimeStatistics(df) ==
            LET
                Number(v) == [nan |-> FALSE, value |-> v]

                NoNumber == [nan |-> TRUE, value |-> 0]

                \* target_hours
                TargetHours == {10, 12, 14, 16}
            IN
            LET rows == {s \in HourlySlots : df[s].present}
                dates == {s[1] : s \in rows}
                \* sel = g[g['hour'].isin(target_hours)]['temp'].dropna()
                sel(d) == {s \in rows : s[1] = d /\ s[2] \in TargetHours /\ df[s].valid}
                with_mean == {d \in dates : EnoughSamples(Cardinality(sel(d)))}
                temp == [s \in HourlySlots |-> df[s].temp]
                \* 12 * mean of the date
                mean12 == [d \in with_mean |->
                              (12 * SumValues(temp, sel(d))) \div Cardinality(sel(d))]
                vals_means == SortedValues(mean12, with_mean)
                hour_slots == UNION {sel(d) : d \in dates}
                vals_hours == SortedValues(temp, hour_slots)
            IN  IF rows = {}
                THEN [error |-> "ValueError: No hourly data available"]
                ELSE IF with_mean = {}
                THEN [error |-> "ValueError: No valid daytime means computed"]
                ELSE [error |-> NoError,
                      temperature_c |-> Percentile4(2, vals_means),
                      temp_hist_p25 |-> Percentile4(1, vals_means),
                      temp_hist_p75 |-> Percentile4(3, vals_means),
                      temp_day_median |-> IF Len(vals_hours) >= 1
                                          THEN Number(Percentile4(2, vals_hours))
                                          ELSE NoNumber,
                      temp_day_p25 |-> IF Len(vals_hours) >= 4
                                       THEN Number(Percentile4(1, vals_hours))
                                       ELSE NoNumber,
                      temp_day_p75 |-> IF Len(vals_hours) >= 4
                                       THEN Number(Percentile4(3, vals_hours))
                                       ELSE NoNumber,
                      daytime_points |-> Len(vals_means),
                      daytime_samples |-> Len(vals_hours)]
    IN
    /\ arg.fn = "daytime"
    /\ ret = NoCall
    /\ ret' = [fn |-> "daytime", stats |-> DaytimeStatistics(arg.df_hourly)]
    /\ UNCHANGED arg
    /\ OutsideCall

DaytimeInit ==
    LET
        DaytimeArgs ==
            LET
                Samples ==
                    LET
                        Absent == [present |-> FALSE, valid |-> FALSE, temp |-> 0]
                    IN
                    {Absent, [present |-> TRUE, valid |-> FALSE, temp |-> 0],
                     [present |-> TRUE, valid |-> TRUE, temp |-> 10],
                     [present |-> TRUE, valid |-> TRUE, temp |-> 20]}
            IN
                       [fn : {"daytime"}, df_hourly : [HourlySlots -> Samples]]
    IN
    /\ QuietInit
    /\ arg \in DaytimeArgs
    /\ ret = NoCall

DaytimeSpec == DaytimeInit /\ [][CallDaytimeStatistics]_vars

(***************************************************************************)
(* weather.py: compute_wind_statistics.  A float is kept in two parts:     *)
(* main, in units of 1/12000, and res, the rounding residue of the double  *)
(* arithmetic, in units of w = cos(pi/2) / 12 = 5.1e-18 (np.cos(np.pi/2)   *)
(* is 6.1e-17, not 0).  Both are multiples of 12 in the tables, so that    *)
(* the mean of up to four values is whole.  The residue counts only where  *)
(* the main parts cancel.                                                  *)
(***************************************************************************)

CallWindStatistics ==
    LET
        \* 1000 log2(n), n >= 1, linear between the powers of two
        Log2Milli(n) ==
            LET
                RECURSIVE Log2Floor(_)
                Log2Floor(nn) == IF nn < 2 THEN 0 ELSE 1 + Log2Floor(nn \div 2)

                RECURSIVE Pow2(_)
                Pow2(e) == IF e = 0 THEN 1 ELSE 2 * Pow2(e - 1)
            IN
            LET e == Log2Floor(n)
                p == Pow2(e)
            IN  1000 * e + (IF p >= 1000 THEN (n - p) \div (p \div 1000)
                            ELSE (1000 * (n - p)) \div p)

        \* compute_wind_statistics(directions_deg): wind_var_deg (wind_dir_deg,
        \* which does not enter it, is left out)
        WindStatistics(dirs) ==
            LET
                \* np.rad2deg(np.sqrt(-2.0 * np.log(R))), in whole degrees:
                \* -2 ln R = ln(12000^2) - ln(value) for the main parts and
                \* -2 ln(w) - ln(value) = 79.63 - ln(value) for the residues
                CircStdDeg(r2) ==
                    LET
                        \* the whole square root
                        RECURSIVE SqrtBetween(_, _, _)
                        SqrtBetween(n, lo, hi) ==
                            IF lo >= hi THEN lo
                            ELSE LET mid == (lo + hi + 1) \div 2
                                 IN  IF mid * mid <= n THEN SqrtBetween(n, mid, hi)
                                     ELSE SqrtBetween(n, lo, mid - 1)

                        \* 1000 ln(n)
                        LnMilli(n) == (Log2Milli(n) * 693) \div 1000
                    IN
                    LET x == IF r2.scale = "main"
                             THEN LnMilli(144000000) - LnMilli(r2.value)
                             ELSE 79630 - LnMilli(r2.value)
                        x0 == IF x < 0 THEN 0 ELSE x
                    IN  (SqrtBetween(1000 * x0, 0, 10000) * 180) \div 3142

                \* `if R <= 0`
                IsZero(r2) == r2.value = 0

                \* R = np.sqrt(mean_sin ** 2 + mean_cos ** 2), kept as R squared: of the
                \* main parts, or of the residues where both main parts are 0
                RSquared(mean_sin, mean_cos) ==
                    IF mean_sin.main # 0 \/ mean_cos.main # 0
                    THEN [scale |-> "main",
                          value |-> mean_sin.main * mean_sin.main + mean_cos.main * mean_cos.main]
                    ELSE [scale |-> "res",
                          value |-> mean_sin.res * mean_sin.res + mean_cos.res * mean_cos.res]

                \* np.mean of the sines or cosines
                MeanOf(vals) ==
                    LET
                        RECURSIVE SumSeq(_)
                        SumSeq(s) == IF s = <<>> THEN 0 ELSE Head(s) + SumSeq(Tail(s))
                    IN
                    [main |-> SumSeq([i \in DOMAIN vals |-> vals[i].main]) \div Len(vals),
                     res |-> SumSeq([i \in DOMAIN vals |-> vals[i].res]) \div Len(vals)]

                \* np.cos(np.deg2rad(d))
                CosOf(d) ==
                    CASE d = 0   -> [main |-> 12000,  res |-> 0]
                      [] d = 10  -> [main |-> 11820,  res |-> 0]
                      [] d = 90  -> [main |-> 0,      res |-> 12]
                      [] d = 180 -> [main |-> -12000, res |-> 0]
                      [] d = 270 -> [main |-> 0,      res |-> -36]
                      [] d = 350 -> [main |-> 11820,  res |-> 0]

                \* np.sin(np.deg2rad(d))
                SinOf(d) ==
                    CASE d = 0   -> [main |-> 0,      res |-> 0]
                      [] d = 10  -> [main |-> 2088,   res |-> 0]
                      [] d = 90  -> [main |-> 12000,  res |-> 0]
                      [] d = 180 -> [main |-> 0,      res |-> 24]
                      [] d = 270 -> [main |-> -12000, res |-> 0]
                      [] d = 350 -> [main |-> -2088,  res |-> -12]
            IN
            IF Len(dirs) = 0 THEN [wind_var_deg |-> 180, R2 |-> [scale |-> "res", value |-> 0]]
            ELSE LET mean_sin == MeanOf([i \in DOMAIN dirs |-> SinOf(dirs[i])])
                     mean_cos == MeanOf([i \in DOMAIN dirs |-> CosOf(dirs[i])])
                     r2 == RSquared(mean_sin, mean_cos)
                 IN  [wind_var_deg |-> IF IsZero(r2) THEN 180 ELSE CircStdDeg(r2),
                      R2 |-> r2]
    IN
    /\ arg.fn = "wind"
    /\ ret = NoCall
    /\ ret' = [fn |-> "wind", out |-> WindStatistics(arg.dirs)]
    /\ UNCHANGED arg
    /\ OutsideCall

WindInit ==
    LET
        \* the series after dropna(): up to four directions
        WindArgs ==
            LET
                WindDirections == {0, 10, 90, 180, 270, 350}
            IN
            [fn : {"wind"},
             dirs : UNION {[1..n -> WindDirections] : n \in 0..4}]
    IN
    /\ QuietInit
    /\ arg \in WindArgs
    /\ ret = NoCall

WindSpec == WindInit /\ [][CallWindStatistics]_vars

(***************************************************************************)
(* app.py api_map_stream.event_stream: the stream token.  Three requests   *)
(* for /api/map/stream, each a generator run by its own thread, share      *)
(* STREAM_TOKEN.  The route has two sampled points and, in tour planning,  *)
(* two days.  A stream's record counts the points whose weather work it    *)
(* has begun (requests) and the station events it has emitted (stations).  *)
(***************************************************************************)
TokenInit ==
    /\ QuietInit
    /\ arg = [fn |-> "event_stream"]
    /\ ret = [fn |-> "event_stream",
              STREAM_TOKEN |-> 0,
              st |-> [s \in 1..3 |->
                        [pc |-> "idle", is_dry_run |-> FALSE,
                         tour_planning |-> FALSE, local_token |-> 0, i |-> 1,
                         requests |-> 0, stations |-> 0]]]

\* lines 847-857: the generator starts; with STREAM_LOCK held it bumps
\* STREAM_TOKEN unless it is a dry run, and keeps the value
StartStream(s) ==
    \E dry \in BOOLEAN, tour \in BOOLEAN :
        LET token == IF dry THEN ret.STREAM_TOKEN ELSE ret.STREAM_TOKEN + 1
        IN
        /\ arg.fn = "event_stream"
        /\ ret.st[s].pc = "idle"
        /\ ret' = [ret EXCEPT !.STREAM_TOKEN = token,
                              !.st[s] = [@ EXCEPT !.pc = "route",
                                                  !.is_dry_run = dry,
                                                  !.tour_planning = tour,
                                                  !.local_token = token]]
        /\ UNCHANGED arg
        /\ OutsideCall

\* the generator runs to its next cancel check, weather fetch or yield
StreamStep(s) ==
    LET
        r == ret.st[s]

        \* lines 1121, 1260, 1725, 1875
        Cancelled == ~r.is_dry_run /\ r.local_token # ret.STREAM_TOKEN

        Stopped == [r EXCEPT !.pc = "cancelled"]

        After ==
            \* lines 1120-1124: the check, then the route event
            IF r.pc = "route"
            THEN IF Cancelled THEN Stopped ELSE [r EXCEPT !.pc = "profile"]
            \* lines 1259-1269: the check, then the profile event; a dry run
            \* ends here
            ELSE IF r.pc = "profile"
            THEN IF Cancelled THEN Stopped
                 ELSE IF r.is_dry_run THEN [r EXCEPT !.pc = "done"]
                 ELSE IF r.tour_planning THEN [r EXCEPT !.pc = "rep", !.i = 1]
                 ELSE [r EXCEPT !.pc = "point", !.i = 1]
            \* lines 1533-1716: the day's representative point is fetched; the
            \* loop has no check
            ELSE IF r.pc = "rep"
            THEN IF r.i = 2
                 THEN [r EXCEPT !.pc = "reuse", !.i = 1, !.requests = @ + 1]
                 ELSE [r EXCEPT !.i = @ + 1, !.requests = @ + 1]
            \* lines 1723-1798: the check, then the station event made of the
            \* day's statistics
            ELSE IF r.pc = "reuse"
            THEN IF r.i > 2 THEN [r EXCEPT !.pc = "done"]
                 ELSE IF Cancelled THEN Stopped
                 ELSE [r EXCEPT !.i = @ + 1, !.stations = @ + 1]
            \* lines 1873-1877: the check; past it the work on the point begins
            ELSE IF r.pc = "point"
            THEN IF r.i > 2 THEN [r EXCEPT !.pc = "done"]
                 ELSE IF Cancelled THEN Stopped
                 ELSE [r EXCEPT !.pc = "fetch", !.requests = @ + 1]
            \* lines 1878-2355: the fetches of the point
            ELSE IF r.pc = "fetch"
            THEN [r EXCEPT !.pc = "emit"]
            \* lines 2356: the station event of the point
            ELSE [r EXCEPT !.pc = "point", !.i = @ + 1, !.stations = @ + 1]
    IN
    /\ arg.fn = "event_stream"
    /\ r.pc \notin {"idle", "done", "cancelled"}
    /\ ret' = [ret EXCEPT !.st[s] = After]
    /\ UNCHANGED arg
    /\ OutsideCall

TokenSpec == TokenInit /\ [][\E s \in 1..3 : StartStream(s) \/ StreamStep(s)]_vars

(***************************************************************************)
(* offline/build_offline_tiles_openmeteo.py: iter_year_chunks.  The        *)
(* arguments are what argparse hands over, --start-year, --end-year and    *)
(* --chunk-years, each type=int with no check of range.  The years are     *)
(* small so that datetime.MINYEAR = 1 is within reach: date(y, 1, 1)       *)
(* raises ValueError for y < 1.  ret is the generator: the y of the loop,  *)
(* the pairs of years yielded so far, and whether it is suspended at a     *)
(* yield, exhausted, or has raised.  A consumer asks for at most five      *)
(* chunks.                                                                 *)
(***************************************************************************)
ChunkInit ==
    /\ QuietInit
    /\ arg \in [fn : {"iter_year_chunks"}, start_year : {1, 2, 3},
                end_year : {2, 3, 4}, chunk_years : {-2, -1, 0, 1, 2, 3}]
    /\ ret = [fn |-> "iter_year_chunks", pc |-> "running", y |-> arg.start_year,
              chunks |-> <<>>]

\* lines 150-155: the test of the while, then one iteration up to its yield
NextChunk ==
    LET
        Min(a, b) == IF a < b THEN a ELSE b

        \* line 151
        y2 == Min(arg.end_year, ret.y + arg.chunk_years - 1)
    IN
    /\ arg.fn = "iter_year_chunks"
    /\ ret.pc = "running"
    /\ Len(ret.chunks) < 5
    /\ ret' = IF ~(ret.y <= arg.end_year)
              THEN [ret EXCEPT !.pc = "exhausted"]
              \* lines 152-153: date(y, 1, 1), date(y2, 12, 31)
              ELSE IF ret.y < 1 \/ y2 < 1
              THEN [ret EXCEPT !.pc = "ValueError"]
              ELSE [ret EXCEPT !.chunks = Append(@, <<ret.y, y2>>),
                               !.y = y2 + 1]
    /\ UNCHANGED arg
    /\ OutsideCall

ChunkSpec == ChunkInit /\ [][NextChunk]_vars

(***************************************************************************)
(* Sequential calls of get_weather from one thread, each after the         *)
(* previous one returned, for keys that are all distinct                   *)
(* (tests/test_weather_service_stress.py).  With one caller the worker     *)
(* handles one task at a time, so a call is one step: get_weather lines    *)
(* 250-292 and, between the put and the wait, _worker_loop lines 138-240.  *)
(* ret holds what the calls so far have left behind, in ticks: elapsed is  *)
(* the age of last_request_ts, since_dispatch the age of the last          *)
(* requests.get, breaker what is left of _api_disabled_until, gap the time *)
(* from the previous call's end to this call's end, spacing the shortest   *)
(* time between two consecutive requests.get up to now (ages and times of  *)
(* RATE_LIMIT_SECONDS or more are kept as RATE_LIMIT_SECONDS).             *)
(***************************************************************************)
SequentialInit ==
    /\ QuietInit
    /\ arg = [fn |-> "sequential"]
    /\ ret = [fn |-> "sequential", calls |-> 0, elapsed |-> RATE_LIMIT_SECONDS,
              since_dispatch |-> RATE_LIMIT_SECONDS, breaker |-> 0,
              gap |-> RATE_LIMIT_SECONDS, spacing |-> RATE_LIMIT_SECONDS,
              out |-> "none", via |-> "none", prev |-> "none",
              prev_via |-> "none"]

SequentialCall ==
    LET
        Cap(n) == IF n > RATE_LIMIT_SECONDS THEN RATE_LIMIT_SECONDS ELSE n
        Least(a, b) == IF a < b THEN a ELSE b

        \* what the attempts of one task can get: each but the last a 429 or
        \* a network error (lines 177-190), at most len(delays) + 1 of them
        Ladders ==
            {l \in UNION {[1..n -> {"ok", "429", "500", "neterror"}] : n \in 1..4} :
                /\ \A i \in 1..(Len(l) - 1) : l[i] \in {"429", "neterror"}
                /\ Len(l) < 4 => l[Len(l)] \in {"ok", "500"}}

        \* time.sleep(delays[attempt]) of the attempts that were retried
        Backoff(l) ==
            IF Len(l) = 1 THEN 0
            ELSE IF Len(l) = 2 THEN delays[1]
            ELSE IF Len(l) = 3 THEN delays[1] + delays[2]
            ELSE delays[1] + delays[2] + delays[3]

        \* lines 194-235: what the last response makes of the task
        Outcome(l) ==
            LET last == l[Len(l)]
            IN  IF last = "ok" THEN "payload" ELSE "raise"
    IN
    \E think \in {0, 20}, disk_hit \in BOOLEAN, latency \in {1, 10}, l \in Ladders :
        LET elapsed == Cap(ret.elapsed + think)
            since == Cap(ret.since_dispatch + think)
            breaker == IF ret.breaker > think THEN ret.breaker - think ELSE 0
            \* lines 146-151: the pacing sleep
            sleep_s == IF elapsed < RATE_LIMIT_SECONDS
                       THEN RATE_LIMIT_SECONDS - elapsed ELSE 0
            n == Len(l)
            fetch_time == n * latency + Backoff(l)
            first_spacing == Cap(since + sleep_s)
            retry_spacing == IF n > 1 THEN Cap(latency + delays[1])
                             ELSE RATE_LIMIT_SECONDS
        IN
        /\ arg.fn = "sequential"
        /\ ret.calls < 3
        /\ disk_hit => l = <<"ok">> /\ latency = 1
        /\ ret' =
            IF disk_hit
            \* lines 257-265: the disk cache of a daily request
            THEN [ret EXCEPT !.calls = @ + 1, !.elapsed = elapsed,
                             !.since_dispatch = since, !.breaker = breaker,
                             !.gap = Cap(think), !.prev = ret.out, !.prev_via = ret.via,
                             !.out = "payload", !.via = "disk"]
            ELSE IF breaker > 0
            \* lines 140-144: the breaker fails the task at once
            THEN [ret EXCEPT !.calls = @ + 1, !.elapsed = elapsed,
                             !.since_dispatch = since, !.breaker = breaker,
                             !.gap = Cap(think), !.prev = ret.out, !.prev_via = ret.via,
                             !.out = "raise", !.via = "breaker"]
            ELSE [ret EXCEPT !.calls = @ + 1, !.elapsed = Cap(fetch_time),
                             !.since_dispatch = Cap(latency),
                             !.breaker = IF l[n] = "429" THEN BREAKER_SECONDS ELSE 0,
                             !.gap = Cap(think + sleep_s + fetch_time),
                             !.spacing = Least(ret.spacing,
                                               Least(first_spacing, retry_spacing)),
                             !.prev = ret.out, !.prev_via = ret.via,
                             !.out = Outcome(l), !.via = "fetch"]
        /\ UNCHANGED arg
        /\ OutsideCall

SequentialSpec == SequentialInit /\ [][SequentialCall]_vars

\* a build that takes a tile left in 'error' for finished as well
TileIsDone_OrError(status) == status \in {"done", "error"}

\* build_offline_tiles_openmeteo.py 289-291: tile_is_done
TileIsDone(status) == status = "done"

(***************************************************************************)
(* The offline build's loop over the selected tiles                        *)
(* (build_offline_tiles_openmeteo.py: main, 739-828), for two tiles and a  *)
(* build that is started up to three times.  ret.db is what is committed   *)
(* in the database file, ret.txn what the connection sees: sqlite3 opens a *)
(* transaction with the first INSERT or DELETE (or the explicit BEGIN) and *)
(* writes it to the file on commit.  rows is "none", "partial" (the        *)
(* climatology rows without the riding_hourly rows) or "complete".         *)
(***************************************************************************)
BuildInit ==
    /\ QuietInit
    /\ arg = [fn |-> "build"]
    /\ ret = [fn |-> "build", run |-> 1, pc |-> "check", idx |-> 1,
              db |-> [t \in 1..2 |-> [status |-> "none", rows |-> "none"]],
              txn |-> [t \in 1..2 |-> [status |-> "none", rows |-> "none"]],
              attempted |-> {}, touched_done |-> FALSE]

\* one statement of main's loop
BuildStep ==
    LET i == ret.idx
        \* a write to the tile of this iteration, inside the transaction
        Write(field, value, next) ==
            [ret EXCEPT !.txn[i][field] = value, !.pc = next,
                        !.touched_done = @ \/ TileIsDone(ret.db[i].status)]
        \* conn.commit()
        Commit(next, idx) == [ret EXCEPT !.db = ret.txn, !.pc = next, !.idx = idx]
        \* a statement raises: line 797
        Raise == [ret EXCEPT !.pc = "rollback"]
    IN
    /\ arg.fn = "build"
    /\ ret.pc # "finished"
    /\ \E ok \in BOOLEAN :
        ret' =
            CASE ret.pc = "check" ->
                    \* lines 764-766
                    IF i > 2 THEN [ret EXCEPT !.pc = "finish"]
                    ELSE IF TileIsDone(ret.txn[i].status)
                    THEN [ret EXCEPT !.idx = i + 1]
                    ELSE [ret EXCEPT !.pc = "building"]
              \* lines 767-769
              [] ret.pc = "building" -> Write("status", "building", "commit_building")
              [] ret.pc = "commit_building" -> Commit("process", i)
              \* line 772: process_tile returns the rows or raises
              [] ret.pc = "process" ->
                    [ret EXCEPT !.attempted = @ \cup {i},
                                !.pc = IF ok THEN "begin" ELSE "rollback"]
              \* lines 774-778
              [] ret.pc = "begin" -> [ret EXCEPT !.pc = "climatology"]
              [] ret.pc = "climatology" ->
                    IF ok THEN Write("rows", "partial", "riding") ELSE Raise
              [] ret.pc = "riding" ->
                    IF ok THEN Write("rows", "complete", "mark_done") ELSE Raise
              [] ret.pc = "mark_done" ->
                    IF ok THEN Write("status", "done", "commit_done") ELSE Raise
              [] ret.pc = "commit_done" ->
                    IF ok THEN Commit("check", i + 1) ELSE Raise
              \* lines 797-805
              [] ret.pc = "rollback" -> [ret EXCEPT !.txn = ret.db, !.pc = "mark_error"]
              [] ret.pc = "mark_error" -> Write("status", "error", "commit_error")
              [] ret.pc = "commit_error" -> Commit("check", i + 1)
              \* lines 824-825
              [] ret.pc = "finish" -> Commit("finished", i)
    /\ UNCHANGED arg
    /\ OutsideCall

\* the build is interrupted (killed, or Ctrl-C, which `except Exception`
\* does not catch) and started again: what was not committed is lost
Interrupt ==
    /\ arg.fn = "build"
    /\ ret.run < 3
    /\ ret' = [ret EXCEPT !.run = @ + 1, !.pc = "check", !.idx = 1,
                          !.txn = ret.db, !.attempted = {}]
    /\ UNCHANGED arg
    /\ OutsideCall

BuildSpec == BuildInit /\ [][BuildStep \/ Interrupt]_vars

(***************************************************************************)
(* Properties of the request coordinator.                                  *)
(***************************************************************************)

\* C1: for one key, however many threads call get_weather or
\* get_daily_range at once, at most one task is outstanding (enqueued or
\* being fetched) until that key's pending request is resolved.
C1_SingleFlight ==
    \A k \in Keys :
        Cardinality({i \in 1..Len(pobjs) :
                        pobjs[i].key = k /\ ~pobjs[i].event}) <= 1

\* C2: an outbound request is sent no sooner than RATE_LIMIT_SECONDS after
\* the previous one, whichever task or attempt either belongs to and
\* whether or not a reset came between them.
C2_HardPacing ==
    [][(0 \notin net /\ 0 \in net') => now - sent >= RATE_LIMIT_SECONDS]_vars

\* C3: while the breaker's deadline lies ahead no outbound request is sent,
\* and a task dequeued then is failed at once with the breaker's
\* temporarily-unavailable error, its event set.
C3_BreakerBlocks ==
    [][/\ (0 \notin net /\ 0 \in net') => ~(now < api_disabled_until)
       /\ (/\ request_queue # <<>>
           /\ request_queue' = Tail(request_queue)
           /\ now < api_disabled_until)
          => LET pid == Head(request_queue).pid IN
             /\ pobjs'[pid].event
             /\ pobjs'[pid].error = ErrBreaker
             /\ wpc' = "idle"
             /\ net' = net]_vars

\* a task was failed fast and the breaker is still active
C3_Witness ==
    /\ now < api_disabled_until
    /\ \E i \in 1..Len(pobjs) :
          pobjs[i].event /\ pobjs[i].error = ErrBreaker

C5_OnlyWorkerOnNetwork ==
    /\ workers <= 1
    /\ net \subseteq {0}

\* C5 amended: ensure_started starts one worker at most; a request to the
\* primary provider is in flight only in that worker, one at a time; a
\* caller thread is inside a network call only in the Meteostat fallback of
\* fetch_daily_weather_same_day or fetch_daily_weather_window, which it
\* runs itself.
C5_PrimaryOnlyByWorker ==
    /\ workers <= 1
    /\ 0 \in net => (workers = 1 /\ wpc = "await")
    /\ \A t \in Threads :
          t \in net => /\ th[t].pc = "meteostat"
                        /\ th[t].mode \in {"same_day", "window"}

\* the worker's request and a caller's fallback request are in flight
\* together
C5_Witness ==
    /\ 0 \in net
    /\ \E t \in Threads : t \in net

\* C6: whoever is served from a pending request, creator or joiner, gets
\* what the worker stored in it: the payload of a successful fetch, the
\* error of a failed one (never a return without error), and nobody is
\* served before the event is set, so no joiner outlasts the creator.
C6_SameOutcome ==
    \A i \in 1..Len(pobjs) :
        \A o \in served[i] :
            /\ pobjs[i].event
            /\ o.err = pobjs[i].error
            /\ o.res = (IF pobjs[i].error = NoError THEN pobjs[i].result
                        ELSE None)
            /\ (o.res = None) # (o.err = NoError)

\* the creator and a joiner of one failed fetch have both been served
C6_Witness ==
    \E i \in 1..Len(pobjs) :
        \E o1, o2 \in served[i] :
            /\ o1.role = "creator"
            /\ o2.role = "joiner"
            /\ o1.err # NoError

\* C7: a call that starts after a fetch of its key has succeeded and the
\* pending request was resolved never creates or enqueues a task of its
\* own.
C7_LateCallsNeverFetch ==
    \A t \in Threads :
        th[t].late => th[t].pc \notin {"create", "put", "wait", "ret"}

\* C8: the worker never stops, and a task a caller waits for is in the
\* queue or in the hands of the worker until its event is set.
C8_EveryTaskSignalled ==
    /\ wpc # "crashed"
    /\ \A t \in Threads :
          (th[t].pc = "wait" /\ ~pobjs[th[t].pend].event)
              => \/ \E n \in 1..Len(request_queue) :
                        request_queue[n].pid = th[t].pend
                 \/ wtask.pid = th[t].pend

\* C9 as stated: every error a caller gets is of a taxonomy kind; the
\* temporarily-unavailable error is the only one of them the service has.
C9_TaxonomyOnly ==
    \A i \in 1..Len(pobjs) :
        \A o \in served[i] : o.err \in {NoError, ErrBreaker, Err429}

\* C9 amended: a caller gets the temporarily-unavailable error when the
\* breaker was active or the last attempt was answered 429; after network
\* errors on every attempt it gets RuntimeError('Request failed'), after
\* another status than 200 RuntimeError('HTTP <status>'), after a body that
\* does not parse the parser's exception, for an unsupported kind
\* ValueError.
C9_ErrorKinds ==
    \A i \in 1..Len(pobjs) :
        \A o \in served[i] :
            o.err = CASE pobjs[i].why = "breaker" -> ErrBreaker
                      [] pobjs[i].why = "429" -> Err429
                      [] pobjs[i].why = "neterror" -> ErrRequestFailed
                      [] pobjs[i].why = "500" -> ErrHttp
                      [] pobjs[i].why = "badjson" -> ErrJson
                      [] pobjs[i].why = "kind" -> ErrKind
                      [] pobjs[i].why = "ok" -> NoError

\* a caller was given RuntimeError('Request failed') after network errors
\* used up the retries
C9_Witness ==
    \E i \in 1..Len(pobjs) :
        /\ pobjs[i].why = "neterror"
        /\ \E o \in served[i] : o.err = ErrRequestFailed

\* C10 as stated: when the last attempt is answered 429 the worker raises
\* the pacing interval, puts the breaker's deadline 60 s ahead and fails
\* the task as temporarily unavailable.
C10_FinalRejectionBumps ==
    [][(wpc = "await" /\ pobjs'[wtask.pid].why = "429")
          => /\ min_interval' > min_interval
             /\ api_disabled_until' = now + BREAKER_SECONDS
             /\ pobjs'[wtask.pid].error = Err429]_vars

\* C10 amended: when the last attempt is answered 429 the worker puts the
\* breaker's deadline 60 s ahead and fails the task as temporarily
\* unavailable; the pacing interval and last_request_ts stay as they are.
C10_FinalRejectionTrips ==
    [][(wpc = "await" /\ pobjs'[wtask.pid].why = "429")
          => /\ min_interval' = min_interval
             /\ last_request_ts' = last_request_ts
             /\ api_disabled_until' = now + BREAKER_SECONDS
             /\ pobjs'[wtask.pid].error = Err429
             /\ pobjs'[wtask.pid].event
             /\ wpc' = "idle"]_vars

\* the breaker has just been tripped by a final 429
C10_Witness ==
    /\ api_disabled_until = now + BREAKER_SECONDS
    /\ min_interval = RATE_LIMIT_SECONDS
    /\ \E i \in 1..Len(pobjs) : pobjs[i].why = "429" /\ pobjs[i].event

\* C11 as stated: a task is failed for a 429, a network error or a server
\* error (5xx) only when the ladder is used up.
C11_TransientRetried ==
    [][(wpc = "await" /\ pobjs'[wtask.pid].why \in {"429", "neterror", "500"})
          => attempt = Len(delays)]_vars

\* C11 amended: the worker sends at most Len(delays) + 1 requests for a
\* task; after a 429 or a network error it sleeps delays[attempt] and goes
\* round again until the ladder is used up, and only then fails the task;
\* any other answer, a server error (5xx) included, ends the task at the
\* attempt that got it, without a retry.
C11_RetryLadder ==
    [][/\ attempt <= Len(delays)
       /\ (wpc = "await" /\ wpc' = "backoff")
          => /\ attempt < Len(delays)
             /\ attempt' = attempt + 1
             /\ wake_at' = now + delays[attempt']
             /\ pobjs' = pobjs
       /\ (wpc = "await" /\ pobjs'[wtask.pid].why \in {"429", "neterror"})
          => attempt = Len(delays)
       /\ \A r \in {"500", "badjson", "ok"} :
             Response(r) => pobjs'[wtask.pid].event /\ pobjs'[wtask.pid].why = r
       /\ \A r \in {"429", "neterror"} :
             (Response(r) /\ attempt < Len(delays)) => wpc' = "backoff"]_vars

\* a task was failed for a server error at its first attempt: no time has
\* passed since the pacing stamp
C11_Witness ==
    /\ wpc = "idle"
    /\ last_request_ts = now
    /\ sent = now
    /\ \E i \in 1..Len(pobjs) : pobjs[i].why = "500" /\ pobjs[i].error = ErrHttp

\* C12: whenever the breaker is tripped its deadline is in the breaker file
\* as well as in memory.
C12_TripMirrored ==
    [][api_disabled_until' > api_disabled_until
          => /\ cb_file'.exists
             /\ cb_file'.txt = "num"
             /\ cb_file'.until = api_disabled_until']_vars

\* C13: a sync from the file never shortens the deadline in memory, and
\* leaves it no earlier than the deadline in the file.
C13_SyncTakesLater ==
    [][\A t \in Threads :
          (lth[t].pc = "sync_store" /\ lth'[t].pc = "check")
             => /\ LEGACY_DISABLED_UNTIL' >= LEGACY_DISABLED_UNTIL
                /\ (cb_file.exists /\ cb_file.txt = "num")
                      => LEGACY_DISABLED_UNTIL' >= cb_file.until]_vars

\* C14: a sync that found the file missing, or with a text that is not a
\* finite timestamp, leaves the deadline in memory as it was.
C14_DefensiveRead ==
    [][\A t \in Threads :
          (/\ lth[t].pc \in {"sync_read", "sync_store"}
           /\ lth'[t].pc = "check"
           /\ lth'[t].val.txt # "num")
             => LEGACY_DISABLED_UNTIL' = LEGACY_DISABLED_UNTIL]_vars

\* C18: a thread that holds _RATE_LOCK is not asleep, not waiting for an
\* event and not inside a network call.
C18_NoBlockingUnderLock ==
    \A t \in Threads :
        RATE_LOCK = t
            => lth[t].pc \notin {"pace_sleep", "backoff", "dd_wait", "await"}


\* C15: the pacing interval stays between the base interval and the
\* ceiling; here, for the offline build's RateLimiter: whenever the
\* interval changes (only bump changes it), it grows, and it does not end
\* above the cap.
C15_BumpNeverDecreases ==
    [][rl'.min_interval_s # rl.min_interval_s
          => /\ rl'.min_interval_s > rl.min_interval_s
             /\ rl'.min_interval_s <= BUMP_CAP]_vars


\* C16: a cache hit never causes a fetch.  A step of get_weather that
\* serves a call from the memory cache or from the disk cache returns the
\* cached payload and leaves the pending table, the _Pending objects, the
\* queue and the network alone; a disk hit puts the payload in the memory
\* cache and ends the call.
C16_CacheHitNeverFetches ==
    [][/\ hits' # hits
          => /\ UNCHANGED <<pending, pobjs, request_queue, net, sent>>
             /\ \A h \in hits' \ hits :
                   /\ h.res # None
                   /\ h.tier = "memory" => /\ h.res = memory_cache[h.key]
                                           /\ UNCHANGED memory_cache
                   /\ h.tier = "disk" => /\ h.res = disk[h.key]
                                         /\ memory_cache'[h.key] = h.res
       /\ \A t \in Threads :
             (/\ \/ th[t].pc = "enter" /\ memory_cache[th[t].req] # None
                 \/ th[t].pc = "disk" /\ disk[th[t].req] # None
              /\ th'[t] # th[t])
                => /\ UNCHANGED <<pending, pobjs, request_queue, net, sent>>
                   /\ th'[t].pc \in {"idle", "sd_year"}
                   /\ th'[t].pend = None
                   /\ memory_cache'[th[t].req] # None]_vars

\* a call has been served from the disk cache, its payload is in the
\* memory cache, and the only _Pending ever made is the one of the fetch
\* that wrote the file
C16_Witness ==
    /\ \E h \in hits : h.tier = "disk" /\ memory_cache[h.key] = h.res
    /\ Len(pobjs) = 1


\* C17: the pending table.  From the moment a task is enqueued until it is
\* resolved, the table maps the task's key to the _Pending the task
\* carries, and no second unresolved _Pending for that key is queued or
\* in the worker's hands.
C17_PendingTable ==
    LET Queued(i) ==
            \/ \E n \in 1..Len(request_queue) : request_queue[n].pid = i
            \/ wpc # "idle" /\ wtask.pid = i
    IN  \A i \in 1..Len(pobjs) :
            (Queued(i) /\ ~pobjs[i].event)
                => /\ pending[pobjs[i].key] = i
                   /\ \A j \in 1..Len(pobjs) :
                         (j # i /\ pobjs[j].key = pobjs[i].key /\ Queued(j))
                            => pobjs[j].event


\* C19: two requests of the same kind and date whose coordinates round to
\* the same 0.1 degree cell get the same key and the same disk-cache file
\* name, and two requests that differ in kind, date or cell get different
\* keys.  The cell of a coordinate is its nearest tenth, as a number.
C19_SameCellSameKey ==
    LET CellOf(v) == IF v < 0 THEN -((5 - v) \div 10) ELSE (v + 5) \div 10
        a == kin[1]
        b == kin[2]
        same == /\ a.kind = b.kind
                /\ a.year = b.year /\ a.month = b.month /\ a.day = b.day
                /\ CellOf(a.lat) = CellOf(b.lat)
                /\ CellOf(a.lon) = CellOf(b.lon)
    IN  kout # <<>>
            => /\ same => /\ kout[1].key = kout[2].key
                          /\ kout[1].path = kout[2].path
               /\ ~same => kout[1].key # kout[2].key


\* C20: Meteostat is used only when the primary path gave no row.  A
\* thread enters the fallback only with zero rows, and a same-day or
\* window fetch that ends without having entered it has at least one row.
C20_FallbackOnlyOnZeroRows ==
    [][\A t \in Threads :
          /\ (th[t].pc # "meteostat" /\ th'[t].pc = "meteostat")
                => th'[t].rows = 0
          /\ (/\ th[t].mode \in {"same_day", "window"}
              /\ th[t].pc # "idle"
              /\ th'[t].pc = "idle")
                => (th[t].pc = "meteostat" \/ th[t].rows > 0)]_vars

\* a fetch whose primary path gave a row has ended without the fallback
\* while the fallback of another fetch, which got no row, is running
C20_Witness ==
    \E t, u \in Threads :
        /\ th[t].pc = "meteostat" /\ th[t].rows = 0
        /\ th[u].pc = "sd_year" /\ th[u].rows > 0 /\ th[u].year > LastYear


(***************************************************************************)
(* Properties of the same-day fetch and the statistics.                    *)
(***************************************************************************)

C22_OfflineMultiYearPreferred ==
    (/\ ret.fn = "event_stream"
     /\ arg.offline = "multi"
     /\ arg.cache # "multi"
     /\ arg.years_window >= 2
     /\ WantMultiYear(arg))
        => /\ ret.out.event = "feature"
           /\ ret.out.source = "offline_tile"
           /\ ret.out.span = "multi"
           /\ ~ret.out.fetched


\* C23: when strict offline mode is in force and neither the offline store
\* nor the stats cache has anything for the point and day, the caller gets
\* an explicit error - no dummy statistics and no online fetch - in the
\* tour-planning path and the per-point path of the stream and in /api/map.
C23_StrictMissSurfacesError ==
    (/\ ret.fn \in {"event_stream", "api_map"}
     /\ StrictInForce(arg)
     /\ arg.offline = "none"
     /\ arg.cache = "none")
        => /\ ret.out.event \in {"point_error", "stream_error", "http_503"}
           /\ ret.out.error # NoError
           /\ ~ret.out.fetched

\* C24: outside strict mode every sampled point gets one station event that
\* carries a feature (stats cache, offline tile, online data or dummy); a
\* failing provider never shows as an error event and never ends the stream.
C24_AlwaysAFeature ==
    (ret.fn = "event_stream" /\ ~arg.strict)
        => ret.out.event = "feature"


(***************************************************************************)
(* Properties of the offline store.                                        *)
(***************************************************************************)

\* C25 as stated: a file whose meta table does not say provider =
\* "open-meteo", or whose provider_only value is not "true", gets no
\* configuration from _load_config and is never the file of the store that
\* default_from_env returns.
C25_RejectsForeignStore ==
    ret.fn = "default_from_env"
        => \A n \in StoreNames :
              (\/ arg.files[n].provider # "open-meteo"
               \/ arg.files[n].provider_only # "true")
                  => ~ret.cfg[n].valid /\ ret.store # n

\* C25 amended: a file whose meta table does not say provider =
\* "open-meteo", or whose provider_only value differs from "true" by more
\* than letter case, gets no configuration from _load_config and is never
\* the file of the store that default_from_env returns, named by
\* OFFLINE_WEATHER_DB or auto-detected.
C25_RejectsForeignStoreIgnoringCase ==
    ret.fn = "default_from_env"
        => \A n \in StoreNames :
              (\/ arg.files[n].provider # "open-meteo"
               \/ arg.files[n].provider_only \notin {"true", "True"})
                  => ~ret.cfg[n].valid /\ ret.store # n

\* OFFLINE_WEATHER_DB names a file with provider_only = "false", another
\* candidate names a different provider, and a store is returned
C25_Witness ==
    /\ ret.fn = "default_from_env"
    /\ arg.env # "unset"
    /\ arg.files[arg.env].provider_only = "false"
    /\ \E n \in StoreNames : arg.files[n].provider = "meteostat"
    /\ ret.store \in StoreNames

\* C26 as stated: among the valid candidates the auto-detection selects
\* the one with the most tiles, then the widest year span, then the most
\* recent modification time, and nothing else decides.
C26_TilesSpanMtime ==
    LET valid(n) == arg.files[n].exists /\ ret.cfg[n].valid
        span(n) == IF arg.files[n].years = <<>> THEN 0
                   ELSE arg.files[n].years[2] - arg.files[n].years[1] + 1
        key(n) == <<arg.files[n].tiles, span(n), arg.files[n].mtime>>
        before(k, l) == \E i \in 1..3 :
                           k[i] < l[i] /\ \A j \in 1..(i - 1) : k[j] = l[j]
    IN  (/\ ret.fn = "default_from_env"
         /\ arg.env = "unset"
         /\ ret.store # "none")
            => \A n \in StoreNames :
                  valid(n) => ~before(key(ret.store), key(n))

\* C26 amended: among the valid candidates the auto-detection selects the
\* one with the most tiles, then the widest year span, then the latest end
\* year, then the most recent modification time; among candidates equal in
\* all four the one visited first (latest year in the file name first,
\* offline_weather.sqlite last).
C26_TilesSpanEndYearMtime ==
    LET valid(n) == arg.files[n].exists /\ ret.cfg[n].valid
        span(n) == IF arg.files[n].years = <<>> THEN 0
                   ELSE arg.files[n].years[2] - arg.files[n].years[1] + 1
        endy(n) == IF arg.files[n].years = <<>> THEN 0
                   ELSE arg.files[n].years[2]
        key(n) == <<arg.files[n].tiles, span(n), endy(n), arg.files[n].mtime>>
        before(k, l) == \E i \in 1..4 :
                           k[i] < l[i] /\ \A j \in 1..(i - 1) : k[j] = l[j]
        pos(n) == CHOOSE i \in DOMAIN CandidateNames : CandidateNames[i] = n
    IN  (/\ ret.fn = "default_from_env"
         /\ arg.env = "unset")
            => /\ ret.store = "none" <=> \A n \in StoreNames : ~valid(n)
               /\ ret.store # "none" =>
                     /\ valid(ret.store)
                     /\ \A n \in StoreNames :
                           valid(n) =>
                              /\ ~before(key(ret.store), key(n))
                              /\ key(n) = key(ret.store)
                                    => pos(ret.store) <= pos(n)

\* three valid candidates with the same number of tiles: the one selected
\* has a narrower span than no other, and a candidate visited after it is
\* equal to it in everything that is compared
C26_Witness ==
    /\ ret.fn = "default_from_env"
    /\ arg.env = "unset"
    /\ \A n \in StoreNames :
          /\ arg.files[n].exists /\ ret.cfg[n].valid
          /\ arg.files[n].tiles = 2
    /\ ret.store = CandidateNames[2]
    /\ arg.files[CandidateNames[1]].years = <<2024, 2024>>
    /\ arg.files[CandidateNames[2]].years = <<2023, 2024>>
    /\ arg.files[CandidateNames[3]] = arg.files[CandidateNames[2]]


\* C27: _tile_id_for_point is a left inverse of the tile generator: for
\* every tile the build makes for a bbox and tile_km, the store finds the
\* same tile_id at the tile's centre; and for every point outside the bbox
\* it finds none.
C27_TileIdLeftInverse ==
    ret.fn = "tile_id"
        => /\ ret.point.of # "probe" => ret.id = ret.point.of
           /\ (\/ ret.point.lat < arg.bbox[1] \/ ret.point.lat > arg.bbox[2]
               \/ ret.point.lon < arg.bbox[3] \/ ret.point.lon > arg.bbox[4])
                 => ret.id = "none"

\* the centre of a tile that is neither in the first row nor in the first
\* column was looked up, in a grid of a dozen tiles or more
C27_Witness ==
    /\ ret.fn = "tile_id"
    /\ ret.point.of = "r2_c3"
    /\ ret.id = "r2_c3"
    /\ Cardinality(ret.tiles) >= 12


(***************************************************************************)
(* Properties of the provider adapters.                                    *)
(***************************************************************************)

\* C28 as stated: an adapter tells 'provider reachable, zero matching rows'
\* apart from 'provider unreachable': a call in the one situation and a
\* call in the other never raise the same exception type and never return
\* the same empty result.
C28_NoDataIsTyped ==
    (ret.fn = "adapter" /\ Len(ret.results) = 2)
        => \A k, l \in 1..2 :
              (/\ ReachableNoRows(arg.adapter, arg.inputs[k])
               /\ Unreachable(arg.adapter, arg.inputs[l]))
                  => ret.results[k] # ret.results[l]

\* C28 amended: no adapter tells the two situations apart.  With no row
\* from any year, fetch_hourly_weather_same_day raises the generic
\* Exception in both; fetch_daily_weather_same_day and
\* _fetch_daily_range_meteostat return an empty frame in both.
C28_NoDataIsUntyped ==
    ret.fn = "adapter"
        => \A k \in 1..Len(ret.results) :
              (\/ ReachableNoRows(arg.adapter, arg.inputs[k])
               \/ Unreachable(arg.adapter, arg.inputs[k]))
                  => ret.results[k] =
                        IF arg.adapter = "hourly"
                        THEN [raised |-> "Exception", rows |-> 0]
                        ELSE [raised |-> "none", rows |-> 0]

\* the hourly adapter was called once with a provider that answers without
\* rows and once with a provider behind the breaker; both calls raised
C28_Witness ==
    /\ ret.fn = "adapter"
    /\ arg.adapter = "hourly"
    /\ Len(ret.results) = 2
    /\ ReachableNoRows("hourly", arg.inputs[1])
    /\ Unreachable("hourly", arg.inputs[2])
    /\ \A y \in FetchYears : arg.inputs[2].outcome[y] = ErrBreaker
    /\ ret.results[1].raised = "Exception"
    /\ ret.results[2].raised = "Exception"


(***************************************************************************)
(* Properties of the statistics of weather.py.                             *)
(***************************************************************************)

\* C29: in the daytime-temperature pass a date with fewer than 2 valid
\* samples at the daytime hours gets no per-date mean, so the between-year
\* percentiles are over the means of the other dates only; the within-day
\* percentiles are over all valid samples at the daytime hours, pooled over
\* the years, those of a date without a mean included.
C29_TwoSampleSets ==
    LET df == arg.df_hourly
        daytime(d) == {s \in HourlySlots :
                          /\ s[1] = d /\ s[2] \in {10, 12, 14, 16}
                          /\ df[s].present /\ df[s].valid}
        counted == {d \in FetchYears : Cardinality(daytime(d)) >= 2}
        pooled == UNION {daytime(d) : d \in FetchYears}
        temp == [s \in HourlySlots |-> df[s].temp]
        means == [d \in counted |->
                     (12 * SumValues(temp, daytime(d))) \div Cardinality(daytime(d))]
    IN  (ret.fn = "daytime" /\ ret.stats.error = NoError)
            => /\ ret.stats.daytime_points = Cardinality(counted)
               /\ ret.stats.temp_hist_p25 =
                     Percentile4(1, SortedValues(means, counted))
               /\ ret.stats.temp_hist_p75 =
                     Percentile4(3, SortedValues(means, counted))
               /\ ret.stats.daytime_samples = Cardinality(pooled)
               /\ ~ret.stats.temp_day_p25.nan
                     => ret.stats.temp_day_p25.value =
                           Percentile4(1, SortedValues(temp, pooled))
               /\ ~ret.stats.temp_day_p75.nan
                     => ret.stats.temp_day_p75.value =
                           Percentile4(3, SortedValues(temp, pooled))

\* 2024 has one valid daytime sample, a cold one: the date has no mean
\* (two means are counted), yet its sample is one of the six of the pool,
\* and the within-day 25th percentile lies below the between-year one
C29_Witness ==
    /\ ret.fn = "daytime"
    /\ ret.stats.error = NoError
    /\ arg.df_hourly[<<2024, 10>>] = [present |-> TRUE, valid |-> TRUE, temp |-> 10]
    /\ ~arg.df_hourly[<<2024, 16>>].valid
    /\ ret.stats.daytime_points = 2
    /\ ret.stats.daytime_samples = 6
    /\ ~ret.stats.temp_day_p25.nan
    /\ 12 * ret.stats.temp_day_p25.value < ret.stats.temp_hist_p25

\* C30: compute_wind_statistics reports the maximal-variance sentinel, 180
\* degrees, whenever the resultant length R is about zero - a rounding
\* residue, as for the four cardinal directions, not only an exact 0 - and
\* the circular standard deviation it reports is never above the sentinel.
C30_SentinelWhenNoResultant ==
    ret.fn = "wind"
        => /\ ret.out.wind_var_deg <= 180
           /\ ret.out.R2.scale = "res" => ret.out.wind_var_deg = 180

(***************************************************************************)
(* Properties of sequential calls.                                         *)
(***************************************************************************)

\* C31: when get_weather is called sequentially for distinct keys, each
\* call that fetched returns at least 0.95 * RATE_LIMIT_SECONDS after the
\* previous call returned from its fetch, and consecutive dispatched
\* fetches are separated by at least the minimum interval.
C31_SequentialCallsSpaced ==
    ret.fn = "sequential"
        => /\ (/\ ret.calls >= 2
               /\ ret.out = "payload" /\ ret.via = "fetch"
               /\ ret.prev = "payload" /\ ret.prev_via = "fetch")
                    => 100 * ret.gap >= 95 * RATE_LIMIT_SECONDS
           /\ ret.spacing >= RATE_LIMIT_SECONDS

\* C32: for a request with hist_start = S and hist_years = N the route event
\* carries the integers years_start = S and years_end = S + N - 1, also in
\* dry-run mode.
C32_RouteEventYearsSpan ==
    (/\ ret.fn = "route_event"
     /\ ret.emitted
     /\ arg.hist_start.kind = "int"
     /\ arg.hist_years.kind = "int")
        => /\ ret.route.years_start.is_int
           /\ ret.route.years_start.n = arg.hist_start.n
           /\ ret.route.years_end.is_int
           /\ ret.route.years_end.n = arg.hist_start.n + arg.hist_years.n - 1

C32_Witness ==
    /\ ret.fn = "route_event"
    /\ ret.emitted
    /\ arg.dry_run
    /\ arg.hist_start.kind = "int" /\ arg.hist_start.n = 2016
    /\ arg.hist_years.kind = "int" /\ arg.hist_years.n = 7
    /\ ret.route.years_end.n = 2022

(***************************************************************************)
(* Properties of the offline build.                                        *)
(***************************************************************************)

\* C33: the offline build is restart-safe.  However often it is interrupted
\* and run again, a tile marked 'done' in the file has its complete rows and
\* is never written again, rows are in the file only together with the
\* 'done' mark, and a build that runs to its end has processed every tile
\* that was not 'done'.
C33_RestartSafe ==
    ret.fn = "build"
        => /\ \A t \in 1..2 :
                /\ ret.db[t].rows \in {"none", "complete"}
                /\ (ret.db[t].rows = "complete") <=> (ret.db[t].status = "done")
           /\ ~ret.touched_done
           /\ ret.pc = "finished"
                => \A t \in 1..2 :
                     \/ ret.db[t].status = "done" /\ ret.db[t].rows = "complete"
                     \/ ret.db[t].status = "error" /\ t \in ret.attempted

\* a build that was interrupted after tile 1 was committed ends, run again,
\* with tile 1 skipped and tile 2 processed
C33_Witness ==
    /\ ret.fn = "build"
    /\ ret.run = 2
    /\ ret.pc = "finished"
    /\ ret.attempted = {2}
    /\ ret.db[1].status = "done"
    /\ ret.db[2].status = "done"

(***************************************************************************)
(* Properties of failed fetches and of the breaker's reach.                *)
(***************************************************************************)

\* C34: a failed fetch is not sticky.  A cache holds an entry for a key only
\* after a fetch for that key succeeded; a failed _Pending is in the pending
\* table only while its creator has not yet returned from its wait; and a
\* call that reads the pending table when every earlier request for its key
\* has failed and been returned to its callers creates a fresh request.
C34_FailureNotSticky ==
    /\ [](\A k \in Keys :
            /\ (memory_cache[k] # None \/ disk[k] # None)
                  => \E i \in 1..Len(pobjs) :
                        pobjs[i].key = k /\ pobjs[i].why = "ok"
            /\ (/\ pending[k] # None
                /\ pobjs[pending[k]].event
                /\ pobjs[pending[k]].error # NoError)
                  => \E t \in Threads :
                        th[t].pend = pending[k] /\ th[t].pc = "wait")
    /\ [][\A t \in Threads :
            (/\ th[t].pc = "dedup"
             /\ th'[t].pc # "dedup"
             /\ \E i \in 1..Len(pobjs) : pobjs[i].key = th[t].req
             /\ \A i \in 1..Len(pobjs) :
                   pobjs[i].key = th[t].req
                     => /\ pobjs[i].event
                        /\ pobjs[i].error # NoError
                        /\ \A u \in Threads \ {t} :
                              ~(/\ th[u].pend = i
                                /\ th[u].pc \in {"put", "wait", "join", "ret"}))
                => th'[t].pc = "create"]_vars

\* a fetch failed, its creator popped the entry and returned; after the pop
\* a call for the same key created a second _Pending, which the worker has
\* taken and sent
C34_Witness ==
    /\ Len(pobjs) = 2
    /\ pobjs[1].key = pobjs[2].key
    /\ pobjs[1].event /\ pobjs[1].error = ErrHttp
    /\ \E o \in served[1] : o.role = "creator"
    /\ pending[pobjs[2].key] = 2
    /\ wpc = "await" /\ wtask.pid = 2
(***************************************************************************)
(* Properties of the hourly day file of the cache.                         *)
(***************************************************************************)
\* C35: fetch_hourly_weather_same_day writes the day file only when it has
\* rows and no year's fetch failed, and the call repeated after the outage
\* asks get_weather for every year that failed during it.
C35_HourlyCacheComplete ==
    ret.fn = "hourly_same_day" =>
        /\ ret.calls[1].file.exists =>
              /\ ret.calls[1].file.rows # {}
              /\ \A y \in FetchYears : arg.outage[y] \in Payloads
        /\ Len(ret.calls) = 2 =>
              \A y \in FetchYears :
                  arg.outage[y] \notin Payloads => y \in ret.calls[2].asked

\* C36: the breaker does not reach the caches.  While the breaker is active,
\* a call whose key is in the memory cache is served that payload at the
\* lookup, and a call that reaches the disk lookup with a file for its key is
\* served the file's payload; neither gets a _Pending, so neither can be
\* failed by the worker.  Only a call that found nothing in both goes on to
\* the pending table.
C36_BreakerSparesCachedKeys ==
    [][now < api_disabled_until =>
         \A t \in Threads :
            /\ (th[t].pc = "idle" /\ th'[t].pc \in {"disk", "dedup"})
                  => memory_cache[th'[t].req] = None
            /\ (/\ th[t].pc = "enter"
                /\ th'[t] # th[t]
                /\ memory_cache[th[t].req] # None)
                  => /\ th'[t].pc = "sd_year"
                     /\ th'[t].pend = None
                     /\ th'[t].rows = th[t].rows + 1
                     /\ [key |-> th[t].req, tier |-> "memory",
                         res |-> memory_cache[th[t].req],
                         breaker |-> TRUE] \in hits'
                     /\ UNCHANGED <<pending, pobjs, request_queue>>
            /\ (/\ th[t].pc = "disk"
                /\ th'[t] # th[t]
                /\ disk[th[t].req] # None)
                  => /\ th'[t].pc \in {"idle", "sd_year"}
                     /\ th'[t].pend = None
                     /\ [key |-> th[t].req, tier |-> "disk",
                         res |-> disk[th[t].req],
                         breaker |-> TRUE] \in hits'
                     /\ UNCHANGED <<pending, pobjs, request_queue>>]_vars

\* while the breaker was active one call was served from the memory cache
\* and one from the disk cache
C36_Witness ==
    /\ \E h \in hits : h.breaker /\ h.tier = "memory" /\ h.res # None
    /\ \E h \in hits : h.breaker /\ h.tier = "disk" /\ h.res # None

C38_ProgressJobDone ==
    (ret.fn = "api_map" /\ ret.progress.exists) => ret.progress.done

(***************************************************************************)
(* Properties of the offline builder's requests and year chunks.           *)
(***************************************************************************)
\* C39: get_json_with_retries has called rl.wait() once for every HTTP
\* attempt it has made, the attempt in hand included; it makes at most
\* len(delays) + 1 = 7 attempts; and when it is over it has either returned
\* the JSON of a response with status 200 or raised RuntimeError.
C39_PacedBoundedAttempts ==
    /\ job.attempt <= 6
    /\ job.pc = "wait" => job.waits = job.attempt
    /\ job.pc \in {"get", "backoff", "done"} => job.waits = job.attempt + 1
    /\ job.pc = "done" =>
          /\ job.out \in {"json", "RuntimeError"}
          /\ (job.out = "json") <=> (job.status = "200")

\* the call has used the whole ladder and raised after its seventh 429
C39_Witness ==
    /\ job.pc = "done"
    /\ job.out = "RuntimeError"
    /\ job.status = "429"
    /\ job.attempt = 6
    /\ job.waits = 7
\* C40: whatever chunk_years is, iter_year_chunks raises nothing, yields
\* ranges of whole years d0 <= d1 that begin at start_year, follow one
\* another without gap or overlap and stay within end_year, so that it
\* has yielded at most one range per year of [start_year, end_year] and is
\* then exhausted, the last range ending at end_year.
C40_ChunksCoverAndEnd ==
    ret.fn = "iter_year_chunks" =>
        /\ ret.pc # "ValueError"
        /\ Len(ret.chunks) <= arg.end_year - arg.start_year + 1
        /\ \A i \in 1..Len(ret.chunks) :
              /\ ret.chunks[i][1] <= ret.chunks[i][2]
              /\ ret.chunks[i][2] <= arg.end_year
              /\ ret.chunks[i][1] =
                    IF i = 1 THEN arg.start_year ELSE ret.chunks[i - 1][2] + 1
        /\ (ret.pc = "exhausted" /\ arg.start_year <= arg.end_year)
              => /\ ret.chunks # <<>>
                 /\ ret.chunks[Len(ret.chunks)][2] = arg.end_year
====
